---- MODULE Spec2Model ----
(***************************************************************************)
(* SAR scanner BLE GATT publisher (src/ble_publisher.py) with the wire     *)
(* protocol helpers it uses (src/ble_protocol.py).                         *)
(*                                                                         *)
(* Two threads share the publisher object: the GLib main loop, which runs  *)
(* the characteristic callbacks (StartNotify, StopNotify, WriteValue), and *)
(* the poll thread (_poll_loop).  The scanner process is a third party     *)
(* that inserts rows into the SQLite tables the poller reads.              *)
(* Time is counted in milliseconds.                                        *)
(***************************************************************************)
EXTENDS Integers, Sequences, FiniteSets, TLC

\* ---------------------------------------------------------------- bounds
\* Rows each table holds at most, the row of OldTable included.
MaxRows == 2
\* Stands for Queue(maxsize=1000) of BLEGATTPublisher.__init__.
QueueMaxSize == 1
\* Stands for limit=20 of the two poll calls in _poll_loop.
PollLimit == 2
\* Clock advances (of TickMs each) the model follows.
MaxTicks == 1
\* Cap of the subscriber counter (StartNotify calls are otherwise unbounded).
MaxSubscribers == 2
\* Ping / GetStats commands handled.
MaxStatusRequests == 1
\* Bulk requests served.
MaxBulkRequests == 1
\* Invalid control writes handled.
MaxInvalidWrites == 1
\* Rows a result set of the bulk query has left, and the number of rows
\* the query has encoded when it is first looked at.
MaxQueryRows == 8
QueryStart == 65530

\* ------------------------------------------------------ program constants
BLE_PUBLISH_POLL_INTERVAL_MS == 500
BLE_PUBLISH_AGGREGATION_MS == 200
POLL_ERROR_SLEEP_MS == 1000
BLE_PUBLISH_MIN_RSSI == -100
SEQ_MODULUS == 65536
CHUNK_SIZE == 480
PROTOCOL_VERSION == 1
UINT16_MAX == 65535
NO_FIX == 0
FIX_2D == 2
FIX_3D == 3
COUNT_MAX == 16777215
BLUETOOTH == 1
WIFI == 2
PAUSE_FEED == 1
RESUME_FEED == 2
SET_RSSI_FILTER == 16
SET_AGGREGATION_INTERVAL == 32
REQUEST_BULK_TRANSFER == 48
PING == 64
GET_STATS == 65
ControlCommand ==
    {PAUSE_FEED, RESUME_FEED, SET_RSSI_FILTER, SET_AGGREGATION_INTERVAL,
     REQUEST_BULK_TRANSFER, PING, GET_STATS}

\* ------------------------------------------------------------------ time
\* One clock advance: a poll interval, longer than the default aggregation
\* interval.
TickMs == BLE_PUBLISH_POLL_INTERVAL_MS
\* time.time() when the publisher starts; any wall clock is far above the
\* largest aggregation interval, so the first comparison against
\* last_notification = 0 succeeds.
StartTime == 66 * 1000
MaxClock == StartTime + MaxTicks * TickMs

\* -------------------------------------------------------- input alphabet
\* An optional value (a nullable column, an Optional field): <<>> or <<x>>.
None == <<>>
Some(x) == <<x>>
\* rssi and ts_unix columns of the rows the scanner inserts while the live
\* feed is followed.
RssiValues == {Some(-90)}
TsValues == {StartTime \div 1000}
\* The sightings table as run() finds it: it holds a row of an earlier
\* scan.
OldTable == <<[rssi |-> Some(-90), ts_unix |-> 60]>>
\* A bulk request ("<IIB"): the second the scanner's rows carry, both
\* types.
BulkRequestBytes == <<66, 0, 0, 0, 66, 0, 0, 0, 0>>
\* Writes to the control endpoint: every opcode, with payloads long enough
\* and too short, the empty write and an undefined opcode.  196 is -60 dBm
\* as a byte; <<88, 2>> is 600 ms.
FeedWrites == {<<PAUSE_FEED>>, <<RESUME_FEED>>}
FilterWrites == {<<SET_RSSI_FILTER, 196>>}
IntervalWrites == {<<SET_AGGREGATION_INTERVAL, 88, 2>>}
StatusWrites == {<<PING>>, <<GET_STATS>>}
BulkWrites == {<<REQUEST_BULK_TRANSFER>> \o BulkRequestBytes}
\* Writes to the bulk endpoint: the request above, a request for a second
\* in which nothing was sighted, and a buffer too short for a request.
BulkEndpointWrites ==
    {BulkRequestBytes, <<1, 0, 0, 0, 1, 0, 0, 0, 0>>, <<66, 0>>}
\* Bulk requests for the minute 60..120, one for each selector.
RangeRequests == {<<60, 0, 0, 0, 120, 0, 0, 0, t>> : t \in {0, 1, 2}}
\* Buffers too short for a request: none, two and eight bytes, the last
\* one the minute 60..120 without its selector.
ShortBulkWrites == {<<>>, <<66, 0>>, <<60, 0, 0, 0, 120, 0, 0, 0>>}
\* Tables of an earlier scan, large enough for several chunks: row i of n
\* carries second 59 + i when the scan's clock ran forward and 122 - i
\* when it was stepped back between rows (row 1 is then out of the
\* minute).
BtTableSizes == {0, 1, 19, 21}
WifiTableSizes == {0, 1, 18}
LargeTable(n, forward) ==
    [i \in 1..n |->
        [rssi |-> Some(-90),
         ts_unix |-> IF forward THEN 59 + i ELSE 122 - i]]
\* SetRssiFilter writes: -60, -128, -1 and 0 dBm as bytes, one of them
\* with a byte to spare, and the command without its payload.
RssiFilterWrites ==
    {<<SET_RSSI_FILTER, 196>>, <<SET_RSSI_FILTER, 128>>,
     <<SET_RSSI_FILTER, 255>>, <<SET_RSSI_FILTER, 0, 7>>,
     <<SET_RSSI_FILTER>>}
\* The rssi column of the rows a scan stores one after another, on both
\* sides of those floors: row n + 1 of a table carries FilterRows[n % 3 + 1].
FilterRows == <<Some(-90), Some(-50), None>>
\* Fix statuses and table counts an advertisement is built from.
FixValues == {NO_FIX, FIX_2D, FIX_3D}
CountValues ==
    {0, 1, 255, 256, 65536, COUNT_MAX - 1, COUNT_MAX, COUNT_MAX + 1,
     20000000, 2147483647}
InvalidWrites ==
    {<<>>, <<255>>, <<SET_RSSI_FILTER>>, <<SET_AGGREGATION_INTERVAL, 88>>}
ControlWrites ==
    FeedWrites \cup FilterWrites \cup IntervalWrites \cup StatusWrites
        \cup BulkWrites \cup InvalidWrites

VARIABLES
    \* BLEGATTPublisher fields
    running, paused, subscribers, seq_num, queue, bt_sent, wifi_sent,
    min_rssi, aggregation_ms, service,
    \* Characteristic.notifying of the live feed, status and bulk endpoints
    live_notifying, status_notifying, bulk_notifying,
    \* SightingPoller cursors and the two tables it reads
    last_bt_id, last_wifi_id, db_bt, db_wifi,
    \* _poll_loop: position and locals
    pc, last_notification, aggregation_interval, now, bt_sightings,
    wifi_sightings,
    \* whether a source query has raised in the pass that has not yet
    \* come to its sleep
    source_failed,
    \* wall clock
    clock,
    \* what the central has received on each endpoint
    live_log, status_log, bulk_log,
    \* sightings the polls have returned, and those handed to
    \* send_notification that were not delivered
    fetched, lost,
    \* Ping / GetStats commands handled, RequestBulkTransfer commands
    \* handled, writes the bulk endpoint has handled, calls of
    \* get_bulk_sightings
    status_requests, bulk_commands, bulk_requests, bulk_queries,
    \* writes of InvalidWrites the control endpoint has handled
    invalid_writes,
    \* on_bulk_request: the chunks it has still to send before it returns
    bulk_chunks,
    \* get_bulk_sightings: position, selector, seq, len(packets) and the
    \* rows of the two result sets not yet encoded
    q_pc, q_type, q_seq, q_packets, q_bt_rows, q_wifi_rows,
    \* StatusCharacteristic.ReadValue: the value the last read returned
    status_reply,
    \* Advertisement.manufacturer_data (empty while there is no
    \* advertisement)
    manufacturer_data,
    \* the sighting and sequence number handed to an encoder, and the
    \* packet it returned
    codec_in, codec_out,
    \* run(): where it stands; whether _adapter_path and _advertisement
    \* are set (_application is set with _service); what the publisher
    \* has learnt of its two registrations; the unregistrations _cleanup
    \* has attempted
    run_pc, adapter_path, advertisement, app_registration, ad_registration,
    unregister_log

vars ==
    <<running, paused, subscribers, seq_num, queue, bt_sent, wifi_sent,
      min_rssi, aggregation_ms, service, live_notifying, status_notifying,
      bulk_notifying, last_bt_id, last_wifi_id, db_bt, db_wifi, pc,
      last_notification, aggregation_interval, now, bt_sightings,
      wifi_sightings, source_failed, clock, live_log, status_log, bulk_log,
      fetched, lost,
      status_requests, bulk_commands, bulk_requests, bulk_queries,
      invalid_writes,
      bulk_chunks, q_pc, q_type, q_seq, q_packets, q_bt_rows, q_wifi_rows,
      status_reply, manufacturer_data, codec_in, codec_out, run_pc,
      adapter_path, advertisement, app_registration, ad_registration,
      unregister_log>>

publisherVars ==
    <<running, paused, subscribers, seq_num, queue, bt_sent, wifi_sent,
      min_rssi, aggregation_ms, service>>
charVars == <<live_notifying, status_notifying, bulk_notifying>>
pollerVars == <<last_bt_id, last_wifi_id>>
dbVars == <<db_bt, db_wifi>>
loopVars ==
    <<pc, last_notification, aggregation_interval, now, bt_sightings,
      wifi_sightings, source_failed>>
queryVars == <<q_pc, q_type, q_seq, q_packets, q_bt_rows, q_wifi_rows>>
codecVars == <<codec_in, codec_out>>
transportVars ==
    <<run_pc, adapter_path, advertisement, app_registration,
      ad_registration, unregister_log>>
sideVars == <<status_reply, manufacturer_data>>
countVars ==
    <<status_requests, bulk_commands, bulk_requests, bulk_queries,
      invalid_writes,
      bulk_chunks, queryVars, codecVars, transportVars, sideVars>>
logVars == <<live_log, status_log, bulk_log, fetched, lost, countVars>>

\* ------------------------------------------------------------- helpers
Max(a, b) == IF a >= b THEN a ELSE b
Min(a, b) == IF a <= b THEN a ELSE b
Range(s) == {s[i] : i \in DOMAIN s}
Last(s) == s[Len(s)]

\* struct.unpack("<b", ...): one byte read as a signed 8-bit integer.
UnpackInt8(b) == IF b >= 128 THEN b - 256 ELSE b
\* struct.unpack("<H", ...): two bytes, little-endian, unsigned.
UnpackUInt16(p) == p[1] + 256 * p[2]
\* struct.unpack("<I", ...): four bytes, little-endian, unsigned.
UnpackUInt32(p) == p[1] + 256 * p[2] + 65536 * p[3] + 16777216 * p[4]
\* struct.pack("<H", n)
PackUInt32(n) ==
    <<n % 256, (n \div 256) % 256, (n \div 65536) % 256,
      (n \div 16777216) % 256>>
PackUInt16(n) == <<n % 256, n \div 256>>

\* The elements of a set of integers in ascending order (ORDER BY id).
RECURSIVE Ascending(_)
Ascending(S) ==
    IF S = {} THEN <<>>
    ELSE LET m == CHOOSE x \in S : \A y \in S : x <= y
         IN <<m>> \o Ascending(S \ {m})

\* ------------------------------------------------------------ SightingPoller
\* The SELECT of poll_bt_sightings / poll_wifi_sightings: ids of the rows
\* past the cursor that pass the RSSI floor, ascending, at most `limit`.
PollQuery(db, last_id, floor, limit) ==
    LET hits == {i \in (last_id + 1)..Len(db) :
                    db[i].rssi = None \/ db[i].rssi[1] >= floor}
        rows == Ascending(hits)
    IN SubSeq(rows, 1, Min(limit, Len(rows)))

\* The cursor after the loop over the returned rows: the last row's id.
CursorAfter(last_id, rows) ==
    IF rows = <<>> THEN last_id ELSE rows[Len(rows)]

\* struct.pack("<b", rssi) of the two sighting encoders takes a signed
\* byte and raises struct.error on any other number; an absent rssi is
\* encoded as -128.
RowEncodable(row) ==
    IF row.rssi = None THEN TRUE
    ELSE row.rssi[1] >= -128 /\ row.rssi[1] <= 127

\* ------------------------------------------------------------ wire packets
\* A live sighting packet, by the fields the flow controller decides: the
\* type byte, the sequence field and the row the remaining fields encode.
encode_bt_sighting(id, seq) == [type |-> BLUETOOTH, seq |-> seq, id |-> id]
encode_wifi_sighting(id, seq) == [type |-> WIFI, seq |-> seq, id |-> id]

\* ------------------------------------------------------------ Characteristic
\* An emission that does not test the notifying flag.
send_unchecked(notifying, log, value) == Append(log, value)

\* Characteristic.send_notification: what the central has received after
\* the call, given the endpoint's notifying flag.  The test of the flag and
\* the PropertiesChanged signal are taken as one step.
send_notification(notifying, log, value) ==
    IF ~notifying THEN log ELSE Append(log, value)

\* Characteristic.StartNotify of the base class.
StartNotify(notifying) == IF notifying THEN notifying ELSE TRUE
\* Characteristic.StopNotify of the base class.
StopNotify(notifying) == FALSE

\* ------------------------------------------------------------ publisher
\* No encoder has been called.
NoCodec ==
    /\ codec_in = None
    /\ codec_out = <<>>

\* No bulk query is running.
NoQuery ==
    /\ q_pc = "none"
    /\ q_type = 0
    /\ q_seq = 0
    /\ q_packets = 0
    /\ q_bt_rows = 0
    /\ q_wifi_rows = 0

\* Nothing has been read from the status endpoint, and there is no
\* advertisement.
SideInit ==
    /\ status_reply = None
    /\ manufacturer_data = <<>>

\* The publisher after construction.
PublisherInit ==
    /\ running = FALSE
    /\ paused = FALSE
    /\ subscribers = 0
    /\ seq_num = 0
    /\ queue = <<>>
    /\ bt_sent = 0
    /\ wifi_sent = 0
    /\ min_rssi = BLE_PUBLISH_MIN_RSSI
    /\ aggregation_ms = BLE_PUBLISH_AGGREGATION_MS
    /\ service = FALSE
    /\ live_notifying = FALSE
    /\ status_notifying = FALSE
    /\ bulk_notifying = FALSE
    /\ last_bt_id = 0
    /\ last_wifi_id = 0
    /\ pc = "idle"
    /\ last_notification = 0
    /\ aggregation_interval = 0
    /\ now = 0
    /\ bt_sightings = <<>>
    /\ wifi_sightings = <<>>
    /\ source_failed = FALSE
    /\ clock = StartTime
    /\ live_log = <<>>
    /\ status_log = <<>>
    /\ bulk_log = <<>>
    /\ fetched = {}
    /\ lost = {}
    /\ status_requests = 0
    /\ bulk_commands = 0
    /\ invalid_writes = 0
    /\ bulk_requests = 0
    /\ bulk_queries = 0
    /\ bulk_chunks = <<>>
    /\ run_pc = "idle"
    /\ adapter_path = FALSE
    /\ advertisement = FALSE
    /\ app_registration = "none"
    /\ ad_registration = "none"
    /\ unregister_log = <<>>
    /\ SideInit

\* The publisher beside the tables of an earlier scan.
Constructed ==
    /\ PublisherInit
    /\ db_bt = OldTable
    /\ db_wifi = <<>>

Init == Constructed /\ NoQuery /\ NoCodec

\* ---------------------------------------------------------- advertising
\* An encoder that cuts the counts to three bytes without clamping them.
encode_advertising_unclamped(gps_fix, bt_count, wifi_count) ==
    <<PROTOCOL_VERSION, gps_fix>>
        \o SubSeq(PackUInt32(bt_count), 1, 3)
        \o SubSeq(PackUInt32(wifi_count), 1, 3)

\* encode_advertising_manufacturer_data: version, fix status and the two
\* counts, clamped to COUNT_MAX, as the first three bytes of "<I".
encode_advertising_manufacturer_data(gps_fix, bt_count, wifi_count) ==
    <<PROTOCOL_VERSION, gps_fix>>
        \o SubSeq(PackUInt32(Min(bt_count, COUNT_MAX)), 1, 3)
        \o SubSeq(PackUInt32(Min(wifi_count, COUNT_MAX)), 1, 3)

\* decode_advertising_manufacturer_data: ValueError under 8 bytes.
decode_advertising_manufacturer_data(data) ==
    IF Len(data) < 8
    THEN [ok |-> FALSE, version |-> 0, gps_fix |-> 0, bt_count |-> 0,
          wifi_count |-> 0]
    ELSE [ok |-> TRUE,
          version |-> data[1],
          gps_fix |-> data[2],
          bt_count |-> UnpackUInt32(SubSeq(data, 3, 5) \o <<0>>),
          wifi_count |-> UnpackUInt32(SubSeq(data, 6, 8) \o <<0>>)]

\* SightingPoller.get_counts: SELECT COUNT(*) of the two tables.
get_counts == <<Len(db_bt), Len(db_wifi)>>

\* _get_advertising_data (the GPS collaborator is not followed: no fix).
get_advertising_data ==
    encode_advertising_manufacturer_data(NO_FIX, get_counts[1], get_counts[2])

\* The encoder applied to a fix status and two counts, its result kept as
\* the advertisement's manufacturer data.
EncodeAdvertising(gps_fix, bt_count, wifi_count) ==
    /\ manufacturer_data' =
           encode_advertising_manufacturer_data(gps_fix, bt_count,
                                                wifi_count)
    /\ UNCHANGED <<publisherVars, charVars, pollerVars, dbVars, loopVars,
                   clock, live_log, status_log, bulk_log, fetched, lost,
                   status_requests, bulk_commands, bulk_requests, bulk_queries,
                   invalid_writes, bulk_chunks, queryVars, codecVars,
                   transportVars,
                   status_reply>>

\* run() up to the main loop, when nothing raises into it: the poller is
\* created with its cursors at the newest rows (SELECT MAX(id)), the GATT
\* application is created and its registration requested, the
\* advertisement is created and its registration requested (`ad` is
\* "failed" when _register_advertisement catches an exception of the
\* request), the poll thread is started and the main loop begins to serve
\* callbacks.  `stopped` tells whether a stop() was called in between,
\* after _running was set and before _mainloop was: it finds no main loop
\* to quit and clears _running.
RunBody(ad, stopped) ==
    /\ pc = "idle"
    /\ run_pc = "idle"
    /\ running' = ~stopped
    /\ adapter_path' = TRUE
    /\ last_bt_id' = Len(db_bt)
    /\ last_wifi_id' = Len(db_wifi)
    /\ service' = TRUE
    /\ app_registration' = "pending"
    /\ manufacturer_data' = get_advertising_data
    /\ advertisement' = TRUE
    /\ ad_registration' = ad
    /\ pc' = "start"
    /\ run_pc' = "serving"
    /\ UNCHANGED <<paused, subscribers, seq_num, queue, bt_sent, wifi_sent,
                   min_rssi, aggregation_ms, charVars, dbVars,
                   last_notification, aggregation_interval, source_failed,
                   now, bt_sightings, wifi_sightings, clock, live_log,
                   status_log, bulk_log, fetched, lost, status_requests,
                   bulk_commands, bulk_requests, bulk_queries, invalid_writes,
                   bulk_chunks, queryVars, codecVars, status_reply,
                   unregister_log>>

\* run() up to the main loop with no stop() called in between.
RunStarts(ad) == RunBody(ad, FALSE)

\* run() with both registrations requested.
Run == RunStarts("pending")

\* run() with a stop() called during its start-up.
RunStoppedEarly == RunBody("pending", TRUE)

\* run() when the request to register the advertisement raises: the
\* exception is printed and run() goes on.
RunAdvertisementRaises == RunStarts("failed")

\* A cleanup that gives up at the first unregistration that raises.
cleanup_aborting(has_ad, has_app, has_adapter, ad_ok, app_ok) ==
    IF has_ad /\ has_adapter
    THEN <<[object |-> "advertisement", ok |-> ad_ok]>>
         \o (IF has_app /\ ad_ok
             THEN <<[object |-> "application", ok |-> app_ok]>>
             ELSE <<>>)
    ELSE IF has_app /\ has_adapter
    THEN <<[object |-> "application", ok |-> app_ok]>>
    ELSE <<>>

\* _cleanup: the unregistrations it attempts, each in its own try, with
\* the outcome of each (ok, or an exception that is passed over).
cleanup(has_ad, has_app, has_adapter, ad_ok, app_ok) ==
    (IF has_ad /\ has_adapter
     THEN <<[object |-> "advertisement", ok |-> ad_ok]>>
     ELSE <<>>)
    \o (IF has_app /\ has_adapter
        THEN <<[object |-> "application", ok |-> app_ok]>>
        ELSE <<>>)

\* run() when the BlueZ bindings are missing or no adapter is found: it
\* returns with nothing created; where the finally clause is passed,
\* _running is false again and _cleanup finds nothing to unregister.
RunWithoutTransport ==
    /\ run_pc = "idle"
    /\ run_pc' = "exited"
    /\ unregister_log' = cleanup(advertisement, service, FALSE, TRUE, TRUE)
    /\ UNCHANGED <<publisherVars, charVars, pollerVars, dbVars, loopVars,
                   clock, live_log, status_log, bulk_log, fetched, lost,
                   status_requests, bulk_commands, bulk_requests, bulk_queries,
                   invalid_writes, bulk_chunks, queryVars, codecVars,
                   sideVars, adapter_path, advertisement, app_registration,
                   ad_registration>>

\* run() when the request to register the GATT application raises: the
\* exception is raised again, run() prints it, and the finally clause
\* clears _running and calls _cleanup.  The advertisement has not been
\* created and the poll thread has not been started.
RunRegistrationRaises ==
    /\ run_pc = "idle"
    /\ running' = FALSE
    /\ adapter_path' = TRUE
    /\ last_bt_id' = Len(db_bt)
    /\ last_wifi_id' = Len(db_wifi)
    /\ service' = TRUE
    /\ app_registration' = "failed"
    /\ \E app_ok \in BOOLEAN :
          unregister_log' = cleanup(advertisement, TRUE, TRUE, TRUE, app_ok)
    /\ run_pc' = "exited"
    /\ UNCHANGED <<paused, subscribers, seq_num, queue, bt_sent, wifi_sent,
                   min_rssi, aggregation_ms, charVars, dbVars, loopVars,
                   clock, live_log, status_log, bulk_log, fetched, lost,
                   status_requests, bulk_commands, bulk_requests, bulk_queries,
                   invalid_writes, bulk_chunks, queryVars, codecVars,
                   sideVars, advertisement, ad_registration>>

\* The reply and error handlers of the two registration requests, called
\* by the main loop.  All four only print.
RegistrationReported(app, ad) ==
    /\ run_pc = "serving"
    /\ app_registration' = app
    /\ ad_registration' = ad
    /\ UNCHANGED <<publisherVars, charVars, pollerVars, dbVars, loopVars,
                   clock, live_log, status_log, bulk_log, fetched, lost,
                   status_requests, bulk_commands, bulk_requests, bulk_queries,
                   invalid_writes, bulk_chunks, queryVars, codecVars,
                   sideVars, run_pc, adapter_path, advertisement,
                   unregister_log>>

RegisterAppCallback ==
    /\ app_registration = "pending"
    /\ RegistrationReported("registered", ad_registration)

RegisterAppError ==
    /\ app_registration = "pending"
    /\ RegistrationReported("failed", ad_registration)

RegisterAdCallback ==
    /\ ad_registration = "pending"
    /\ RegistrationReported(app_registration, "registered")

RegisterAdError ==
    /\ ad_registration = "pending"
    /\ RegistrationReported(app_registration, "failed")

\* stop(): _running is cleared and the main loop is asked to quit.
Stop ==
    /\ run_pc = "serving"
    /\ running' = FALSE
    /\ run_pc' = "stopping"
    /\ UNCHANGED <<paused, subscribers, seq_num, queue, bt_sent, wifi_sent,
                   min_rssi, aggregation_ms, service, charVars, pollerVars,
                   dbVars, loopVars, clock, live_log, status_log, bulk_log,
                   fetched, lost, status_requests, bulk_commands,
                   bulk_requests, bulk_queries, invalid_writes,
                   bulk_chunks, queryVars,
                   codecVars, sideVars, adapter_path, advertisement,
                   app_registration, ad_registration, unregister_log>>

\* The main loop returns, after quit() or with an exception: the finally
\* clause of run() clears _running and calls _cleanup.
RunExits ==
    /\ run_pc \in {"serving", "stopping"}
    /\ running' = FALSE
    /\ \E ad_ok \in BOOLEAN, app_ok \in BOOLEAN :
          unregister_log' =
              cleanup(advertisement, service, adapter_path, ad_ok, app_ok)
    /\ run_pc' = "exited"
    /\ UNCHANGED <<paused, subscribers, seq_num, queue, bt_sent, wifi_sent,
                   min_rssi, aggregation_ms, service, charVars, pollerVars,
                   dbVars, loopVars, clock, live_log, status_log, bulk_log,
                   fetched, lost, status_requests, bulk_commands,
                   bulk_requests, bulk_queries, invalid_writes,
                   bulk_chunks, queryVars,
                   codecVars, sideVars, adapter_path, advertisement,
                   app_registration, ad_registration>>

\* The main loop returns because stop() has called its quit().
MainLoopQuits == run_pc = "stopping" /\ RunExits

\* ---------------------------------------------------------------- _poll_loop
\* The two lines before the while loop.
PollStart ==
    /\ pc = "start"
    /\ last_notification' = 0
    /\ aggregation_interval' = aggregation_ms
    /\ pc' = "check"
    /\ UNCHANGED <<publisherVars, charVars, pollerVars, dbVars, now,
                   bt_sightings, wifi_sightings, source_failed, clock,
                   logVars>>

\* A gate that forgets the paused flag.
GateWithoutPaused == subscribers > 0

\* if not self._paused and self._subscribers > 0
PollGate == ~paused /\ subscribers > 0

\* Where the loop stands once the batches are `bt` and `wifi`.
LoopPc(bt, wifi) ==
    IF bt # <<>> THEN "bt_loop"
    ELSE IF wifi # <<>> THEN "wifi_loop"
    ELSE "drain"

\* while self._running: ... if <gate>: ... else fall through to the sleep.
PollCheck ==
    /\ pc = "check"
    /\ pc' = IF ~running THEN "done"
             ELSE IF PollGate THEN "poll_bt" ELSE "sleep"
    /\ UNCHANGED <<publisherVars, charVars, pollerVars, dbVars,
                   last_notification, aggregation_interval, source_failed, now,
                   bt_sightings, wifi_sightings, clock, logVars>>

PollBt ==
    /\ pc = "poll_bt"
    /\ LET rows == PollQuery(db_bt, last_bt_id, min_rssi, PollLimit)
       IN /\ bt_sightings' = rows
          /\ last_bt_id' = CursorAfter(last_bt_id, rows)
          /\ fetched' = fetched \cup {<<"bt", id>> : id \in Range(rows)}
    /\ pc' = "poll_wifi"
    /\ UNCHANGED <<publisherVars, charVars, last_wifi_id, dbVars,
                   last_notification, aggregation_interval, source_failed,
                   now,
                   wifi_sightings, clock, live_log, status_log, bulk_log,
                   lost, countVars>>

\* poll_wifi_sightings, then now = time.time().
PollWifi ==
    /\ pc = "poll_wifi"
    /\ LET rows == PollQuery(db_wifi, last_wifi_id, min_rssi, PollLimit)
       IN /\ wifi_sightings' = rows
          /\ last_wifi_id' = CursorAfter(last_wifi_id, rows)
          /\ fetched' = fetched \cup {<<"wifi", id>> : id \in Range(rows)}
          /\ pc' = LoopPc(bt_sightings, rows)
    /\ now' = clock
    /\ UNCHANGED <<publisherVars, charVars, last_bt_id, dbVars,
                   last_notification, aggregation_interval, source_failed,
                   bt_sightings,
                   clock, live_log, status_log, bulk_log, lost, countVars>>

\* poll_bt_sightings when the connection or the SELECT raises: the
\* exception is caught inside, the cursor is where it was and the empty
\* list is returned.
PollBtFails ==
    /\ pc = "poll_bt"
    /\ bt_sightings' = <<>>
    /\ source_failed' = TRUE
    /\ pc' = "poll_wifi"
    /\ UNCHANGED <<publisherVars, charVars, pollerVars, dbVars,
                   last_notification, aggregation_interval, now,
                   wifi_sightings, clock, logVars>>

\* poll_wifi_sightings when the connection or the SELECT raises, then
\* now = time.time().
PollWifiFails ==
    /\ pc = "poll_wifi"
    /\ wifi_sightings' = <<>>
    /\ source_failed' = TRUE
    /\ pc' = LoopPc(bt_sightings, <<>>)
    /\ now' = clock
    /\ UNCHANGED <<publisherVars, charVars, pollerVars, dbVars,
                   last_notification, aggregation_interval, bt_sightings,
                   clock, logVars>>

\* A source query raises.
SourceFails ==
    \/ PollBtFails
    \/ PollWifiFails

\* A test that lets every sighting through.
AlwaysElapsed(t, last, interval) == TRUE

\* now - last_notification >= aggregation_interval
IntervalElapsed(t, last, interval) == t - last >= interval

\* _send_bt_notification / _send_wifi_notification
SendNotification(packet, sighting) ==
    IF ~service
    THEN /\ lost' = lost \cup {sighting}
         /\ UNCHANGED <<seq_num, live_log>>
    ELSE /\ seq_num' = (seq_num + 1) % SEQ_MODULUS
         /\ live_log' =
                send_notification(live_notifying, live_log, packet)
         /\ lost' = IF live_notifying THEN lost ELSE lost \cup {sighting}

\* The table row behind a queued <<type, id>> pair.
RowOfItem(item) == IF item[1] = "bt" THEN db_bt[item[2]] ELSE db_wifi[item[2]]

\* One iteration of `for sighting in bt_sightings`.  Queue.put blocks
\* while the queue is full.  An iteration whose encoder raises is
\* BtIterFails.
BtIter ==
    /\ pc = "bt_loop"
    /\ LET id == Head(bt_sightings)
       IN IF IntervalElapsed(now, last_notification, aggregation_interval)
          THEN /\ service => RowEncodable(db_bt[id])
               /\ SendNotification(
                     encode_bt_sighting(id, (seq_num + 1) % SEQ_MODULUS),
                     <<"bt", id>>)
               /\ last_notification' = now
               /\ bt_sent' = bt_sent + 1
               /\ queue' = queue
          ELSE /\ Len(queue) < QueueMaxSize
               /\ queue' = Append(queue, <<"bt", id>>)
               /\ UNCHANGED <<seq_num, live_log, lost, last_notification,
                              bt_sent>>
    /\ bt_sightings' = Tail(bt_sightings)
    /\ pc' = LoopPc(Tail(bt_sightings), wifi_sightings)
    /\ UNCHANGED <<running, paused, subscribers, wifi_sent, min_rssi,
                   aggregation_ms, service, charVars, pollerVars, dbVars,
                   aggregation_interval, source_failed, now, wifi_sightings,
                   clock,
                   status_log, bulk_log, fetched, countVars>>

\* One iteration of `for sighting in wifi_sightings`.
WifiIter ==
    /\ pc = "wifi_loop"
    /\ LET id == Head(wifi_sightings)
       IN IF IntervalElapsed(now, last_notification, aggregation_interval)
          THEN /\ service => RowEncodable(db_wifi[id])
               /\ SendNotification(
                     encode_wifi_sighting(id, (seq_num + 1) % SEQ_MODULUS),
                     <<"wifi", id>>)
               /\ last_notification' = now
               /\ wifi_sent' = wifi_sent + 1
               /\ queue' = queue
          ELSE /\ Len(queue) < QueueMaxSize
               /\ queue' = Append(queue, <<"wifi", id>>)
               /\ UNCHANGED <<seq_num, live_log, lost, last_notification,
                              wifi_sent>>
    /\ wifi_sightings' = Tail(wifi_sightings)
    /\ pc' = LoopPc(bt_sightings, Tail(wifi_sightings))
    /\ UNCHANGED <<running, paused, subscribers, bt_sent, min_rssi,
                   aggregation_ms, service, charVars, pollerVars, dbVars,
                   aggregation_interval, source_failed, now, bt_sightings,
                   clock,
                   status_log, bulk_log, fetched, countVars>>

\* One pass of `while not self._queue.empty()`: leave when the queue is
\* empty or the interval has not elapsed, else pop one entry and send it.
Drain ==
    /\ pc = "drain"
    /\ IF queue = <<>>
       THEN /\ pc' = "sleep"
            /\ UNCHANGED <<queue, now, last_notification, seq_num, live_log,
                           lost, bt_sent, wifi_sent>>
       ELSE /\ now' = clock
            /\ IF IntervalElapsed(clock, last_notification,
                                  aggregation_interval)
               THEN LET item == Head(queue)
                    IN /\ service => RowEncodable(RowOfItem(item))
                       /\ queue' = Tail(queue)
                       /\ IF item[1] = "bt"
                          THEN /\ SendNotification(
                                     encode_bt_sighting(
                                         item[2],
                                         (seq_num + 1) % SEQ_MODULUS),
                                     item)
                               /\ bt_sent' = bt_sent + 1
                               /\ wifi_sent' = wifi_sent
                          ELSE /\ SendNotification(
                                     encode_wifi_sighting(
                                         item[2],
                                         (seq_num + 1) % SEQ_MODULUS),
                                     item)
                               /\ wifi_sent' = wifi_sent + 1
                               /\ bt_sent' = bt_sent
                       /\ last_notification' = clock
                       /\ pc' = "drain"
               ELSE /\ pc' = "sleep"
                    /\ UNCHANGED <<queue, last_notification, seq_num,
                                   live_log, lost, bt_sent, wifi_sent>>
    /\ UNCHANGED <<running, paused, subscribers, min_rssi, aggregation_ms,
                   service, charVars, pollerVars, dbVars,
                   aggregation_interval, source_failed, bt_sightings,
                   wifi_sightings, clock,
                   status_log, bulk_log, fetched, countVars>>

\* time.sleep(self.poll_interval)
Sleep ==
    /\ pc = "sleep"
    /\ clock + BLE_PUBLISH_POLL_INTERVAL_MS <= MaxClock
    /\ clock' = clock + BLE_PUBLISH_POLL_INTERVAL_MS
    /\ pc' = "check"
    /\ source_failed' = FALSE
    /\ UNCHANGED <<publisherVars, charVars, pollerVars, dbVars,
                   last_notification, aggregation_interval, now,
                   bt_sightings, wifi_sightings, logVars>>

\* except Exception: print, time.sleep(1), back to the top of the while
\* loop.  The for loops are left behind with what they had not reached.
\* The clock is not followed past MaxClock.
PollExcept ==
    /\ pc' = "check"
    /\ clock' = Min(clock + POLL_ERROR_SLEEP_MS, MaxClock)
    /\ bt_sightings' = <<>>
    /\ wifi_sightings' = <<>>
    /\ source_failed' = FALSE
    /\ UNCHANGED <<running, paused, subscribers, bt_sent, wifi_sent,
                   min_rssi, aggregation_ms, service, charVars, pollerVars,
                   dbVars, last_notification, aggregation_interval, now,
                   live_log, status_log, bulk_log, fetched, lost, countVars>>

\* An iteration of `for sighting in bt_sightings` whose
\* _send_bt_notification raises: the sequence number is already
\* incremented when encode_bt_sighting raises.
BtIterFails ==
    /\ pc = "bt_loop"
    /\ IntervalElapsed(now, last_notification, aggregation_interval)
    /\ service
    /\ ~RowEncodable(db_bt[Head(bt_sightings)])
    /\ seq_num' = (seq_num + 1) % SEQ_MODULUS
    /\ queue' = queue
    /\ PollExcept

\* The same in `for sighting in wifi_sightings`.
WifiIterFails ==
    /\ pc = "wifi_loop"
    /\ IntervalElapsed(now, last_notification, aggregation_interval)
    /\ service
    /\ ~RowEncodable(db_wifi[Head(wifi_sightings)])
    /\ seq_num' = (seq_num + 1) % SEQ_MODULUS
    /\ queue' = queue
    /\ PollExcept

\* A pass of the drain loop whose send raises: the entry has left the
\* queue.
DrainFails ==
    /\ pc = "drain"
    /\ queue # <<>>
    /\ IntervalElapsed(clock, last_notification, aggregation_interval)
    /\ service
    /\ ~RowEncodable(RowOfItem(Head(queue)))
    /\ seq_num' = (seq_num + 1) % SEQ_MODULUS
    /\ queue' = Tail(queue)
    /\ PollExcept

\* The poll loop's exception path.
PollError ==
    \/ BtIterFails
    \/ WifiIterFails
    \/ DrainFails

PollLoop ==
    \/ PollStart
    \/ PollCheck
    \/ PollBt
    \/ PollWifi
    \/ BtIter
    \/ WifiIter
    \/ Drain
    \/ Sleep

\* ------------------------------------------------ live feed subscription
\* BLEGATTPublisher.on_live_feed_subscribe
on_live_feed_subscribe(n) == n + 1
\* An unsubscribe handler without the floor at 0.
unsubscribe_unclamped(n) == n - 1
\* BLEGATTPublisher.on_live_feed_unsubscribe
on_live_feed_unsubscribe(n) == Max(0, n - 1)

\* The main loop dispatches one D-Bus call at a time: a handler runs when
\* the main loop runs, the application is there, its registration has not
\* been refused, and no handler is inside the loop.
Dispatch ==
    /\ service
    /\ bulk_chunks = <<>>
    /\ run_pc \in {"serving", "stopping"}
    /\ app_registration # "failed"

\* LiveFeedCharacteristic.StartNotify
LiveFeedStartNotify ==
    /\ Dispatch
    /\ subscribers < MaxSubscribers
    /\ live_notifying' = StartNotify(live_notifying)
    /\ subscribers' = on_live_feed_subscribe(subscribers)
    /\ UNCHANGED <<running, paused, seq_num, queue, bt_sent, wifi_sent,
                   min_rssi, aggregation_ms, service, status_notifying,
                   bulk_notifying, pollerVars, dbVars, loopVars, clock,
                   logVars>>

\* A StopNotify that ends the notifications of the bulk endpoint too.
StopNotifyEverywhere ==
    /\ Dispatch
    /\ live_notifying' = StopNotify(live_notifying)
    /\ bulk_notifying' = StopNotify(bulk_notifying)
    /\ subscribers' = on_live_feed_unsubscribe(subscribers)
    /\ UNCHANGED <<running, paused, seq_num, queue, bt_sent, wifi_sent,
                   min_rssi, aggregation_ms, service, status_notifying,
                   pollerVars, dbVars, loopVars, clock, logVars>>

\* LiveFeedCharacteristic.StopNotify
LiveFeedStopNotify ==
    /\ Dispatch
    /\ live_notifying' = StopNotify(live_notifying)
    /\ subscribers' = on_live_feed_unsubscribe(subscribers)
    /\ UNCHANGED <<running, paused, seq_num, queue, bt_sent, wifi_sent,
                   min_rssi, aggregation_ms, service, status_notifying,
                   bulk_notifying, pollerVars, dbVars, loopVars, clock,
                   logVars>>

\* ------------------------------------------------------ status endpoint
\* A status built once, at start-up, and served ever after.
status_at_startup ==
    [v |-> PROTOCOL_VERSION, queue |-> 0, active |-> TRUE, paused |-> FALSE]

\* get_status_bytes: the fields of the status record that the publisher's
\* own state decides, as encode_status names them (the GPS fields, the
\* table counts, the timestamp and the identification strings come from
\* collaborators and are not followed).
get_status_bytes ==
    [v |-> PROTOCOL_VERSION,
     queue |-> Len(queue),
     active |-> running,
     paused |-> paused]

\* StatusCharacteristic.ReadValue: the reply is what get_status_bytes
\* returns when the read is handled.
StatusReadValue ==
    /\ Dispatch
    /\ status_reply' = Some(get_status_bytes)
    /\ UNCHANGED <<publisherVars, charVars, pollerVars, dbVars, loopVars,
                   clock, live_log, status_log, bulk_log, fetched, lost,
                   status_requests, bulk_commands, bulk_requests, bulk_queries,
                   invalid_writes, bulk_chunks, queryVars, codecVars,
                   transportVars,
                   manufacturer_data>>

\* StatusCharacteristic inherits StartNotify / StopNotify.
StatusStartNotify ==
    /\ Dispatch
    /\ status_notifying' = StartNotify(status_notifying)
    /\ UNCHANGED <<publisherVars, live_notifying, bulk_notifying,
                   pollerVars, dbVars, loopVars, clock, logVars>>

StatusStopNotify ==
    /\ Dispatch
    /\ status_notifying' = StopNotify(status_notifying)
    /\ UNCHANGED <<publisherVars, live_notifying, bulk_notifying,
                   pollerVars, dbVars, loopVars, clock, logVars>>

\* ----------------------------------------------------- control endpoint
\* decode_control_command: ValueError on an empty buffer and on a byte that
\* is no ControlCommand member, else the command and the payload.
decode_control_command(data) ==
    IF Len(data) < 1 THEN [ok |-> FALSE, cmd |-> 0, payload |-> <<>>]
    ELSE IF data[1] \notin ControlCommand
         THEN [ok |-> FALSE, cmd |-> data[1], payload |-> <<>>]
         ELSE [ok |-> TRUE, cmd |-> data[1], payload |-> Tail(data)]

\* A handler that reads the floor as an unsigned byte.
MinRssiUnsigned(cmd, payload, old) ==
    IF cmd = SET_RSSI_FILTER /\ Len(payload) >= 1
    THEN payload[1]
    ELSE old

\* A handler in which either feed command flips the flag.
PausedToggled(cmd, old) ==
    IF cmd \in {PAUSE_FEED, RESUME_FEED} THEN ~old ELSE old

\* The paused flag after a command.
PausedAfter(cmd, old) ==
    IF cmd = PAUSE_FEED THEN TRUE
    ELSE IF cmd = RESUME_FEED THEN FALSE
    ELSE old

\* The RSSI floor after a command.
MinRssiAfter(cmd, payload, old) ==
    IF cmd = SET_RSSI_FILTER /\ Len(payload) >= 1
    THEN UnpackInt8(payload[1])
    ELSE old

\* A handler that takes the interval from whatever payload there is.
AggregationMsFromAnyPayload(cmd, payload, old) ==
    IF cmd = SET_AGGREGATION_INTERVAL /\ Len(payload) >= 1
    THEN payload[1] + (IF Len(payload) >= 2 THEN 256 * payload[2] ELSE 0)
    ELSE old

\* The configured aggregation interval after a command.
AggregationMsAfter(cmd, payload, old) ==
    IF cmd = SET_AGGREGATION_INTERVAL /\ Len(payload) >= 2
    THEN UnpackUInt16(SubSeq(payload, 1, 2))
    ELSE old

\* Whether a command makes the handler notify the status.
SendsStatus(cmd) == cmd \in {PING, GET_STATS} /\ service
\* The count of Ping / GetStats commands after a command.
StatusRequestsAfter(cmd, old) ==
    IF cmd \in {PING, GET_STATS} THEN old + 1 ELSE old
\* The count of RequestBulkTransfer commands after a command.
BulkCommandsAfter(cmd, old) ==
    IF cmd = REQUEST_BULK_TRANSFER THEN old + 1 ELSE old

\* BLEGATTPublisher.on_control_write; a decode error is caught and logged.
on_control_write(data) ==
    LET d == decode_control_command(data)
    IN IF ~d.ok
       THEN UNCHANGED <<paused, min_rssi, aggregation_ms, status_log,
                        status_requests, bulk_commands>>
       ELSE /\ paused' = PausedAfter(d.cmd, paused)
            /\ min_rssi' = MinRssiAfter(d.cmd, d.payload, min_rssi)
            /\ aggregation_ms' =
                   AggregationMsAfter(d.cmd, d.payload, aggregation_ms)
            /\ status_log' =
                   IF SendsStatus(d.cmd)
                   THEN send_notification(status_notifying, status_log,
                                          get_status_bytes)
                   ELSE status_log
            /\ status_requests' =
                   StatusRequestsAfter(d.cmd, status_requests)
            /\ bulk_commands' = BulkCommandsAfter(d.cmd, bulk_commands)

\* The count of invalid writes after a write.
InvalidWritesAfter(data, old) ==
    IF data \in InvalidWrites THEN old + 1 ELSE old

\* ControlCharacteristic.WriteValue
ControlWriteValue(data) ==
    /\ Dispatch
    /\ on_control_write(data)
    /\ invalid_writes' = InvalidWritesAfter(data, invalid_writes)
    /\ status_requests' <= MaxStatusRequests
    /\ bulk_commands' <= MaxBulkRequests
    /\ invalid_writes' <= MaxInvalidWrites
    /\ UNCHANGED <<running, subscribers, seq_num, queue, bt_sent, wifi_sent,
                   service, charVars, pollerVars, dbVars, loopVars, clock,
                   live_log, bulk_log, fetched, lost, bulk_requests,
                   bulk_queries,
                   bulk_chunks, queryVars, codecVars, transportVars, sideVars>>

\* -------------------------------------------------------- bulk endpoint
\* A decoder that takes the bytes a short buffer lacks as zero.
decode_bulk_request_padded(data) ==
    LET padded == data \o [i \in 1..(9 - Len(data)) |-> 0]
    IN [ok |-> TRUE,
        ts_start |-> UnpackUInt32(SubSeq(padded, 1, 4)),
        ts_end |-> UnpackUInt32(SubSeq(padded, 5, 8)),
        sighting_type |-> padded[9]]

\* decode_bulk_request: ValueError under 9 bytes, else "<IIB" of the
\* first 9.
decode_bulk_request(data) ==
    IF Len(data) < 9
    THEN [ok |-> FALSE, ts_start |-> 0, ts_end |-> 0, sighting_type |-> 0]
    ELSE [ok |-> TRUE,
          ts_start |-> UnpackUInt32(SubSeq(data, 1, 4)),
          ts_end |-> UnpackUInt32(SubSeq(data, 5, 8)),
          sighting_type |-> data[9]]

\* ORDER BY ts_unix over the rows `ids` of a table (rows of one second in
\* row order).
RECURSIVE OrderByTs(_, _)
OrderByTs(db, ids) ==
    IF ids = {} THEN <<>>
    ELSE LET m == CHOOSE x \in ids : \A y \in ids :
                      \/ db[x].ts_unix < db[y].ts_unix
                      \/ db[x].ts_unix = db[y].ts_unix /\ x <= y
         IN <<m>> \o OrderByTs(db, ids \ {m})

\* A query without the upper end of the range.
BulkQueryOpenEnded(db, ts_start, ts_end) ==
    OrderByTs(db, {i \in 1..Len(db) : db[i].ts_unix >= ts_start})

\* WHERE ts_unix >= ? AND ts_unix <= ? ORDER BY ts_unix
BulkQuery(db, ts_start, ts_end) ==
    OrderByTs(db, {i \in 1..Len(db) :
                      db[i].ts_unix >= ts_start /\ db[i].ts_unix <= ts_end})

\* SightingPoller.get_bulk_sightings: the packets of the rows in range,
\* Bluetooth first, numbered from 0.  struct.pack("<H", seq) raises on the
\* first number past UINT16_MAX and struct.pack("<b", rssi) on the first
\* row that cannot be encoded; the exception is caught and the packets
\* appended before it are returned.
get_bulk_sightings(ts_start, ts_end, sighting_type) ==
    LET bt == IF sighting_type \in {0, 1}
              THEN BulkQuery(db_bt, ts_start, ts_end) ELSE <<>>
        wifi == IF sighting_type \in {0, 2}
                THEN BulkQuery(db_wifi, ts_start, ts_end) ELSE <<>>
        packets == [i \in 1..Len(bt) |-> encode_bt_sighting(bt[i], i - 1)]
                      \o [i \in 1..Len(wifi) |->
                             encode_wifi_sighting(wifi[i], Len(bt) + i - 1)]
        rows == [i \in 1..Len(bt) |-> db_bt[bt[i]]]
                   \o [i \in 1..Len(wifi) |-> db_wifi[wifi[i]]]
        raising == {i \in 1..Len(rows) : ~RowEncodable(rows[i])}
        encoded == IF raising = {} THEN Len(rows)
                   ELSE (CHOOSE i \in raising : \A j \in raising : i <= j) - 1
    IN SubSeq(packets, 1, Min(encoded, UINT16_MAX + 1))

\* The length of an encoded sighting without strings, and its bytes, each
\* named by the packet and the offset it sits at.
PacketLen(packet) ==
    IF packet.type = BLUETOOTH
    THEN 1 + 2 + 6 + 4 + 4 + 4 + 1 + 1 + 1 + 1 + 1
    ELSE 1 + 2 + 6 + 4 + 4 + 4 + 1 + 1
PacketBytes(packet) ==
    [k \in 1..PacketLen(packet) |-> <<packet.type, packet.id, packet.seq, k>>]

\* b"".join(packets)
RECURSIVE Join(_)
Join(packets) ==
    IF packets = <<>> THEN <<>>
    ELSE PacketBytes(Head(packets)) \o Join(Tail(packets))

\* encode_bulk_chunk: the "<HH" header, then the data.
encode_bulk_chunk(chunk_id, total_chunks, data) ==
    [header |-> PackUInt16(chunk_id) \o PackUInt16(total_chunks),
     data |-> data]

\* A cut whose slices stop one byte short of the next slice.
ShortChunks(total_data) ==
    LET total_chunks == (Len(total_data) + CHUNK_SIZE - 1) \div CHUNK_SIZE
    IN [i \in 1..total_chunks |->
           encode_bulk_chunk(
               i - 1, total_chunks,
               SubSeq(total_data, (i - 1) * CHUNK_SIZE + 1,
                      Min(i * CHUNK_SIZE - 1, Len(total_data))))]

\* A cut that counts one slice past the full ones, whether or not bytes
\* are left for it.
ChunksCountedPastEnd(total_data) ==
    LET total_chunks == Len(total_data) \div CHUNK_SIZE + 1
    IN [i \in 1..total_chunks |->
           encode_bulk_chunk(
               i - 1, total_chunks,
               SubSeq(total_data, (i - 1) * CHUNK_SIZE + 1,
                      Min(i * CHUNK_SIZE, Len(total_data))))]

\* The chunks on_bulk_request cuts total_data into.
Chunks(total_data) ==
    LET total_chunks == (Len(total_data) + CHUNK_SIZE - 1) \div CHUNK_SIZE
    IN [i \in 1..total_chunks |->
           encode_bulk_chunk(
               i - 1, total_chunks,
               SubSeq(total_data, (i - 1) * CHUNK_SIZE + 1,
                      Min(i * CHUNK_SIZE, Len(total_data))))]

\* BLEGATTPublisher.on_bulk_request up to its first time.sleep; a decode
\* error is caught and logged.  The chunks after the first are sent one
\* per pacing delay, and the handler returns after the last (the sleep
\* that follows the last chunk touches no state).
on_bulk_request(data) ==
    LET request == decode_bulk_request(data)
    IN IF ~request.ok
       THEN UNCHANGED <<bulk_log, bulk_chunks, bulk_queries>>
       ELSE LET packets == get_bulk_sightings(request.ts_start,
                                              request.ts_end,
                                              request.sighting_type)
                chunks == Chunks(Join(packets))
            IN /\ bulk_queries' = bulk_queries + 1
               /\ IF packets = <<>>
                  THEN /\ bulk_log' =
                             send_notification(bulk_notifying, bulk_log,
                                               encode_bulk_chunk(0, 0, <<>>))
                       /\ bulk_chunks' = <<>>
                  ELSE /\ bulk_log' =
                             send_notification(bulk_notifying, bulk_log,
                                               Head(chunks))
                       /\ bulk_chunks' = Tail(chunks)

\* BulkTransferCharacteristic.WriteValue
BulkWriteValue(data) ==
    /\ Dispatch
    /\ bulk_requests < MaxBulkRequests
    /\ on_bulk_request(data)
    /\ bulk_requests' = bulk_requests + 1
    /\ UNCHANGED <<publisherVars, charVars, pollerVars, dbVars, loopVars,
                   clock, live_log, status_log, fetched, lost,
                   status_requests, bulk_commands, invalid_writes,
                   queryVars, codecVars, transportVars, sideVars>>

\* on_bulk_request after a time.sleep(0.05): the next chunk, still inside
\* the handler the main loop called.
BulkNextChunk ==
    /\ bulk_chunks # <<>>
    /\ bulk_log' = send_notification(bulk_notifying, bulk_log,
                                     Head(bulk_chunks))
    /\ bulk_chunks' = Tail(bulk_chunks)
    /\ UNCHANGED <<publisherVars, charVars, pollerVars, dbVars, loopVars,
                   clock, live_log, status_log, fetched, lost,
                   status_requests, bulk_commands, bulk_requests, bulk_queries,
                   invalid_writes, queryVars, codecVars,
                   transportVars, sideVars>>

\* ------------------------------------------------------ bulk query loop
\* get_bulk_sightings row by row, each result set given by the number of
\* its rows.  struct.pack("<H", seq) takes 0 .. UINT16_MAX.
FitsUInt16(seq) == seq >= 0 /\ seq <= UINT16_MAX

\* The loop over the rows of sightings: encode_bt_sighting(sighting, seq),
\* packets.append, seq += 1; a struct.error leaves the try block.
QueryBt ==
    /\ q_pc = "bt"
    /\ IF q_type \in {0, 1} /\ q_bt_rows > 0
       THEN IF FitsUInt16(q_seq)
            THEN /\ q_packets' = q_packets + 1
                 /\ q_seq' = q_seq + 1
                 /\ q_bt_rows' = q_bt_rows - 1
                 /\ q_pc' = "bt"
            ELSE /\ q_pc' = "returned"
                 /\ UNCHANGED <<q_packets, q_seq, q_bt_rows>>
       ELSE /\ q_pc' = "wifi"
            /\ UNCHANGED <<q_packets, q_seq, q_bt_rows>>
    /\ UNCHANGED <<publisherVars, charVars, pollerVars, dbVars, loopVars,
                   clock, live_log, status_log, bulk_log, fetched, lost,
                   status_requests, bulk_commands, bulk_requests, bulk_queries,
                   invalid_writes, bulk_chunks, q_type, q_wifi_rows,
                   codecVars, transportVars, sideVars>>

\* The loop over the rows of wifi_associations, and the return.
QueryWifi ==
    /\ q_pc = "wifi"
    /\ IF q_type \in {0, 2} /\ q_wifi_rows > 0
       THEN IF FitsUInt16(q_seq)
            THEN /\ q_packets' = q_packets + 1
                 /\ q_seq' = q_seq + 1
                 /\ q_wifi_rows' = q_wifi_rows - 1
                 /\ q_pc' = "wifi"
            ELSE /\ q_pc' = "returned"
                 /\ UNCHANGED <<q_packets, q_seq, q_wifi_rows>>
       ELSE /\ q_pc' = "returned"
            /\ UNCHANGED <<q_packets, q_seq, q_wifi_rows>>
    /\ UNCHANGED <<publisherVars, charVars, pollerVars, dbVars, loopVars,
                   clock, live_log, status_log, bulk_log, fetched, lost,
                   status_requests, bulk_commands, bulk_requests, bulk_queries,
                   invalid_writes, bulk_chunks, q_type, q_bt_rows,
                   codecVars, transportVars, sideVars>>

\* BulkTransferCharacteristic inherits StartNotify / StopNotify.
BulkStartNotify ==
    /\ Dispatch
    /\ bulk_notifying' = StartNotify(bulk_notifying)
    /\ UNCHANGED <<publisherVars, live_notifying, status_notifying,
                   pollerVars, dbVars, loopVars, clock, logVars>>

BulkStopNotify ==
    /\ Dispatch
    /\ bulk_notifying' = StopNotify(bulk_notifying)
    /\ UNCHANGED <<publisherVars, live_notifying, status_notifying,
                   pollerVars, dbVars, loopVars, clock, logVars>>

\* ------------------------------------------------------------ wire codec
\* Strings are sequences of Unicode code points; bytes are integers in
\* 0..255.  Coordinates are integers in units of 1e-7 degree, so that
\* int(lat * 1e7) is the coordinate itself.
NAME_MAX_CHARS == 32
MFR_MAX_CHARS == 20
SSID_MAX_CHARS == 32
NO_GPS == 2147483647
RSSI_UNKNOWN == -128
TX_POWER_UNKNOWN == 127
BT_MIN_LEN == 27
WIFI_MIN_LEN == 24
INT32_MIN_MAGNITUDE == 2147483647

\* data[first:last] of a bytes object or a string, 0-based and clipped to
\* the length as Python clips it.
Slice(data, first, last) == SubSeq(data, first + 1, Min(last, Len(data)))

\* str.encode("utf-8") of one character.
utf8_char(c) ==
    IF c < 128 THEN <<c>>
    ELSE IF c < 2048 THEN <<192 + (c \div 64), 128 + (c % 64)>>
    ELSE IF c < 65536
    THEN <<224 + (c \div 4096), 128 + ((c \div 64) % 64), 128 + (c % 64)>>
    ELSE <<240 + (c \div 262144), 128 + ((c \div 4096) % 64),
           128 + ((c \div 64) % 64), 128 + (c % 64)>>

\* str.encode("utf-8")
RECURSIVE utf8_encode(_)
utf8_encode(str) ==
    IF str = <<>> THEN <<>>
    ELSE utf8_char(Head(str)) \o utf8_encode(Tail(str))

\* Number of bytes of the UTF-8 sequence a lead byte opens; 0 for a byte
\* that cannot open one.
utf8_width(b) ==
    IF b < 128 THEN 1
    ELSE IF b < 192 THEN 0
    ELSE IF b < 224 THEN 2
    ELSE IF b < 240 THEN 3
    ELSE IF b < 248 THEN 4
    ELSE 0

\* bytes.decode("utf-8"): Some(string), or None where Python raises
\* UnicodeDecodeError.
RECURSIVE utf8_decode(_)
utf8_decode(b) ==
    IF b = <<>> THEN Some(<<>>)
    ELSE
        LET n == utf8_width(b[1]) IN
        IF \/ n = 0
           \/ Len(b) < n
           \/ \E i \in 2..n : b[i] < 128 \/ b[i] >= 192
        THEN None
        ELSE
            LET c == CASE n = 1 -> b[1]
                       [] n = 2 -> (b[1] - 192) * 64 + (b[2] - 128)
                       [] n = 3 -> (b[1] - 224) * 4096 + (b[2] - 128) * 64
                                   + (b[3] - 128)
                       [] n = 4 -> (b[1] - 240) * 262144
                                   + (b[2] - 128) * 4096
                                   + (b[3] - 128) * 64 + (b[4] - 128)
                rest == utf8_decode(SubSeq(b, n + 1, Len(b)))
            IN  IF rest = None THEN None ELSE Some(<<c>> \o rest[1])

\* A MAC address as the scanner stores it: its six bytes, written in hex
\* with a separator and in one letter case.
encode_mac(mac_str) == mac_str.hex
decode_mac(mac_bytes) == [hex |-> mac_bytes, sep |-> ":", upper |-> TRUE]

\* struct.pack("<b", n)
PackInt8(n) == <<IF n < 0 THEN n + 256 ELSE n>>
\* struct.pack("<i", n)
PackInt32(n) ==
    IF n >= 0 THEN PackUInt32(n)
    ELSE LET u == (n + INT32_MIN_MAGNITUDE) + 1
         IN  <<u % 256, (u \div 256) % 256, (u \div 65536) % 256,
               128 + (u \div 16777216)>>
\* struct.unpack("<i", ...)
UnpackInt32(p) ==
    IF p[4] >= 128
    THEN ((p[1] + 256 * p[2] + 65536 * p[3] + 16777216 * (p[4] - 128))
          - INT32_MIN_MAGNITUDE) - 1
    ELSE UnpackUInt32(p)

encode_lat_lon(lat, lon) ==
    <<PackInt32(IF lat = None THEN NO_GPS ELSE lat[1]),
      PackInt32(IF lon = None THEN NO_GPS ELSE lon[1])>>

decode_lat_lon(lat_bytes, lon_bytes) ==
    LET lat_int == UnpackInt32(lat_bytes)
        lon_int == UnpackInt32(lon_bytes)
    IN  <<IF lat_int = NO_GPS THEN None ELSE Some(lat_int),
          IF lon_int = NO_GPS THEN None ELSE Some(lon_int)>>

\* sighting.local_name or "", and the like.
OrEmpty(str) == IF str = None THEN <<>> ELSE str[1]

\* (s or "")[:cap].encode("utf-8")
name_bytes(str, cap) == utf8_encode(Slice(str, 0, cap))

bt_sighting_bytes(sighting, seq) ==
    LET ll == encode_lat_lon(sighting.lat, sighting.lon)
        rssi == IF sighting.rssi # None THEN sighting.rssi[1]
                ELSE RSSI_UNKNOWN
        tx_power == IF sighting.tx_power # None THEN sighting.tx_power[1]
                    ELSE TX_POWER_UNKNOWN
        name == name_bytes(OrEmpty(sighting.local_name), NAME_MAX_CHARS)
        mfr == name_bytes(OrEmpty(sighting.manufacturer), MFR_MAX_CHARS)
        flags == (IF name # <<>> THEN 1 ELSE 0) + (IF mfr # <<>> THEN 2 ELSE 0)
    IN  <<BLUETOOTH>> \o PackUInt16(seq) \o encode_mac(sighting.addr)
        \o PackUInt32(sighting.ts_unix) \o ll[1] \o ll[2]
        \o PackInt8(rssi) \o PackInt8(tx_power)
        \o <<flags, Len(name), Len(mfr)>> \o name \o mfr

\* A failed decode, whatever exception reports it.
DecodeError == [ok |-> FALSE]

decode_bt_sighting(data) ==
    IF Len(data) < BT_MIN_LEN THEN DecodeError
    ELSE IF data[1] # BLUETOOTH THEN DecodeError
    ELSE
        LET ll == decode_lat_lon(Slice(data, 13, 17), Slice(data, 17, 21))
            rssi == UnpackInt8(data[22])
            tx_power == UnpackInt8(data[23])
            name_len == data[25]
            mfr_len == data[26]
            name == IF name_len > 0
                    THEN utf8_decode(Slice(data, 26, 26 + name_len))
                    ELSE Some(None)
            mfr == IF mfr_len > 0
                   THEN utf8_decode(Slice(data, 26 + name_len,
                                          26 + name_len + mfr_len))
                   ELSE Some(None)
        IN  IF name = None \/ mfr = None THEN DecodeError
            ELSE [ok |-> TRUE,
                  seq_num |-> UnpackUInt16(Slice(data, 1, 3)),
                  sighting |->
                      [addr |-> decode_mac(Slice(data, 3, 9)),
                       ts_unix |-> UnpackUInt32(Slice(data, 9, 13)),
                       lat |-> ll[1],
                       lon |-> ll[2],
                       rssi |-> IF rssi = RSSI_UNKNOWN THEN None
                                ELSE Some(rssi),
                       local_name |-> IF name_len > 0 THEN name ELSE None,
                       manufacturer |-> IF mfr_len > 0 THEN mfr ELSE None,
                       tx_power |-> IF tx_power = TX_POWER_UNKNOWN THEN None
                                    ELSE Some(tx_power)]]

wifi_sighting_bytes(sighting, seq) ==
    LET ll == encode_lat_lon(sighting.lat, sighting.lon)
        rssi == IF sighting.rssi # None THEN sighting.rssi[1]
                ELSE RSSI_UNKNOWN
        ssid == name_bytes(sighting.ssid, SSID_MAX_CHARS)
    IN  <<WIFI>> \o PackUInt16(seq) \o encode_mac(sighting.mac)
        \o PackUInt32(sighting.ts_unix) \o ll[1] \o ll[2]
        \o PackInt8(rssi) \o <<Len(ssid)>> \o ssid

decode_wifi_sighting(data) ==
    IF Len(data) < WIFI_MIN_LEN THEN DecodeError
    ELSE IF data[1] # WIFI THEN DecodeError
    ELSE
        LET ll == decode_lat_lon(Slice(data, 13, 17), Slice(data, 17, 21))
            rssi == UnpackInt8(data[22])
            ssid_len == data[23]
            ssid == IF ssid_len > 0
                    THEN utf8_decode(Slice(data, 23, 23 + ssid_len))
                    ELSE Some(<<>>)
        IN  IF ssid = None THEN DecodeError
            ELSE [ok |-> TRUE,
                  seq_num |-> UnpackUInt16(Slice(data, 1, 3)),
                  sighting |->
                      [mac |-> decode_mac(Slice(data, 3, 9)),
                       ts_unix |-> UnpackUInt32(Slice(data, 9, 13)),
                       lat |-> ll[1],
                       lon |-> ll[2],
                       ssid |-> ssid[1],
                       rssi |-> IF rssi = RSSI_UNKNOWN THEN None
                                ELSE Some(rssi)]]

\* Inputs of the encoders.
Repeat(c, n) == [i \in 1..n |-> c]
MacValues ==
    {[hex |-> <<170, 187, 204, 0, 17, 255>>, sep |-> ":", upper |-> TRUE]}
CoordinateValues == {None, Some(523456789), Some(-169000001)}
CodecRssiValues == {None, Some(-90)}
TxPowerValues == {None, Some(4)}
SeqValues == {0, UINT16_MAX}
NameValues ==
    {None, Some(<<>>), Some(<<80, 67, 75>>), Some(Repeat(97, 40)),
     Some(Repeat(233, 32)), Some(<<8364, 128512>>)}
ManufacturerValues == {None, Some(<<65, 112, 112, 108, 101>>)}
SsidValues ==
    {<<>>, <<110, 101, 116>>, Repeat(97, 40), Repeat(233, 32),
     <<8364, 128512>>}
BTSighting ==
    [addr : MacValues, ts_unix : TsValues, lat : CoordinateValues,
     lon : CoordinateValues, rssi : CodecRssiValues,
     local_name : NameValues, manufacturer : ManufacturerValues,
     tx_power : TxPowerValues]
WiFiSighting ==
    [mac : MacValues, ts_unix : TsValues, lat : CoordinateValues,
     lon : CoordinateValues, ssid : SsidValues, rssi : CodecRssiValues]

\* An encoder is called with the sighting and sequence number at hand.
EncodeSighting ==
    /\ codec_in # None
    /\ codec_out = <<>>
    /\ codec_out' =
           IF codec_in[1].type = BLUETOOTH
           THEN bt_sighting_bytes(codec_in[1].sighting, codec_in[1].seq_num)
           ELSE wifi_sighting_bytes(codec_in[1].sighting,
                                    codec_in[1].seq_num)
    /\ UNCHANGED <<publisherVars, charVars, pollerVars, dbVars, loopVars,
                   clock, live_log, status_log, bulk_log, fetched, lost,
                   status_requests, bulk_commands, bulk_requests, bulk_queries,
                   invalid_writes, bulk_chunks, queryVars, codec_in,
                   transportVars, sideVars>>

\* --------------------------------------------------------- environment
\* The scanner inserts a row into the sightings table.  What it wrote
\* before run() is the initial table.
ScannerInsertBt(rssi, ts) ==
    /\ service
    /\ Len(db_bt) < MaxRows
    /\ db_bt' = Append(db_bt, [rssi |-> rssi, ts_unix |-> ts])
    /\ UNCHANGED <<publisherVars, charVars, pollerVars, db_wifi, loopVars,
                   clock, logVars>>

\* The scanner inserts a row into the wifi_associations table.
ScannerInsertWifi(rssi, ts) ==
    /\ service
    /\ Len(db_wifi) < MaxRows
    /\ db_wifi' = Append(db_wifi, [rssi |-> rssi, ts_unix |-> ts])
    /\ UNCHANGED <<publisherVars, charVars, pollerVars, db_bt, loopVars,
                   clock, logVars>>

\* Time passes.
Tick ==
    /\ clock + TickMs <= MaxClock
    /\ clock' = clock + TickMs
    /\ UNCHANGED <<publisherVars, charVars, pollerVars, dbVars, loopVars,
                   logVars>>

\* The scanner writes rows whose rssi is no signed byte among the others.
CorruptRssiValues == {Some(200)}
ScannerWithCorruptRows ==
    \/ \E r \in RssiValues \cup CorruptRssiValues, t \in TsValues :
          ScannerInsertBt(r, t)
    \/ \E r \in RssiValues \cup CorruptRssiValues, t \in TsValues :
          ScannerInsertWifi(r, t)

\* The scanner at work.
Scanner ==
    \/ \E r \in RssiValues, t \in TsValues : ScannerInsertBt(r, t)
    \/ \E r \in RssiValues, t \in TsValues : ScannerInsertWifi(r, t)

\* The live feed: the poll thread against the live feed's subscription
\* events and the control writes that configure the feed, with the scanner
\* and the clock.
Next ==
    \/ Run
    \/ PollLoop
    \/ LiveFeedStartNotify
    \/ LiveFeedStopNotify
    \/ \E data \in FeedWrites \cup FilterWrites \cup IntervalWrites :
          ControlWriteValue(data)
    \/ Scanner
    \/ Tick

Spec == Init /\ [][Next]_vars

\* The status endpoint: status requests and the endpoint's subscription
\* events, while the poll thread fills the queue and the feed is paused
\* and resumed.
NextStatus ==
    \/ Run
    \/ PollLoop
    \/ LiveFeedStartNotify
    \/ StatusStartNotify
    \/ StatusStopNotify
    \/ \E data \in FeedWrites \cup StatusWrites : ControlWriteValue(data)
    \/ Scanner

SpecStatus == Init /\ [][NextStatus]_vars

\* The advertising encoder over fix statuses and counts.
NextAdvertising ==
    \E gps_fix \in FixValues, bt_count \in CountValues,
       wifi_count \in CountValues :
        EncodeAdvertising(gps_fix, bt_count, wifi_count)

SpecAdvertising == Init /\ [][NextAdvertising]_vars

\* The live feed over tables with rows that cannot be encoded.
NextCorrupt ==
    \/ Run
    \/ PollLoop
    \/ PollError
    \/ LiveFeedStartNotify
    \/ ScannerWithCorruptRows
    \/ Tick

SpecCorrupt == Init /\ [][NextCorrupt]_vars

\* The live feed over a source whose queries may raise, started on empty
\* tables.  The poll thread runs whenever it can take a step.
InitSource ==
    /\ PublisherInit
    /\ db_bt = <<>>
    /\ db_wifi = <<>>
    /\ NoQuery
    /\ NoCodec

NextSource ==
    \/ Run
    \/ PollLoop
    \/ SourceFails
    \/ LiveFeedStartNotify
    \/ Scanner
    \/ Tick

SpecSource ==
    InitSource /\ [][NextSource]_vars /\ WF_vars(PollLoop \/ SourceFails)

\* run() from its start to its exit: the registrations and what is
\* reported of them, stop(), and the status endpoint and the feed's
\* pause and resume commands while the main loop runs.
NextTransport ==
    \/ Run
    \/ RunAdvertisementRaises
    \/ RunWithoutTransport
    \/ RunRegistrationRaises
    \/ RegisterAppCallback
    \/ RegisterAppError
    \/ RegisterAdCallback
    \/ RegisterAdError
    \/ Stop
    \/ RunExits
    \/ StatusReadValue
    \/ LiveFeedStartNotify
    \/ \E data \in FeedWrites : ControlWriteValue(data)

SpecTransport == Init /\ [][NextTransport]_vars

\* The sighting encoders over sightings and sequence numbers.
InitCodec ==
    /\ Constructed
    /\ NoQuery
    /\ codec_out = <<>>
    /\ \/ \E sighting \in BTSighting, seq \in SeqValues :
              codec_in = Some([type |-> BLUETOOTH, sighting |-> sighting,
                               seq_num |-> seq])
       \/ \E sighting \in WiFiSighting, seq \in SeqValues :
              codec_in = Some([type |-> WIFI, sighting |-> sighting,
                               seq_num |-> seq])

NextCodec == EncodeSighting

SpecCodec == InitCodec /\ [][NextCodec]_vars

\* The status endpoint read while the poll thread fills the queue and the
\* feed is paused and resumed.
NextRead ==
    \/ Run
    \/ PollLoop
    \/ LiveFeedStartNotify
    \/ StatusReadValue
    \/ \E data \in FeedWrites : ControlWriteValue(data)
    \/ Scanner

SpecRead == Init /\ [][NextRead]_vars

\* The bulk endpoint: requests written to it and RequestBulkTransfer
\* commands written to the control endpoint, with the endpoint's
\* subscription events, while the scanner fills the tables.
NextBulk ==
    \/ Run
    \/ BulkStartNotify
    \/ BulkStopNotify
    \/ \E data \in BulkEndpointWrites : BulkWriteValue(data)
    \/ \E data \in BulkWrites : ControlWriteValue(data)
    \/ Scanner

SpecBulk == Init /\ [][NextBulk]_vars

\* A bulk query over result sets of any length, looked at from its start
\* or after QueryStart rows.
InitQuery ==
    /\ Constructed
    /\ NoCodec
    /\ q_type \in {0, 1, 2}
    /\ q_seq \in {0, QueryStart}
    /\ q_packets = q_seq
    /\ q_bt_rows \in 0..MaxQueryRows
    /\ q_wifi_rows \in 0..MaxQueryRows
    /\ q_pc = IF q_type = 2 /\ q_seq > 0 THEN "wifi" ELSE "bt"

NextQuery == QueryBt \/ QueryWifi

SpecQuery == InitQuery /\ [][NextQuery]_vars

\* The bulk endpoint of a publisher started on large tables, with the
\* bulk endpoint subscribed, beside the subscription events of the bulk
\* and live-feed endpoints.
InitLarge ==
    /\ running = TRUE
    /\ paused = FALSE
    /\ subscribers = 0
    /\ seq_num = 0
    /\ queue = <<>>
    /\ bt_sent = 0
    /\ wifi_sent = 0
    /\ min_rssi = BLE_PUBLISH_MIN_RSSI
    /\ aggregation_ms = BLE_PUBLISH_AGGREGATION_MS
    /\ service = TRUE
    /\ live_notifying = FALSE
    /\ status_notifying = FALSE
    /\ bulk_notifying = TRUE
    /\ \E n \in BtTableSizes, m \in WifiTableSizes, forward \in BOOLEAN :
          /\ db_bt = LargeTable(n, forward)
          /\ db_wifi = LargeTable(m, forward)
    /\ last_bt_id = Len(db_bt)
    /\ last_wifi_id = Len(db_wifi)
    /\ pc = "start"
    /\ last_notification = 0
    /\ aggregation_interval = 0
    /\ now = 0
    /\ bt_sightings = <<>>
    /\ wifi_sightings = <<>>
    /\ source_failed = FALSE
    /\ clock = StartTime
    /\ live_log = <<>>
    /\ status_log = <<>>
    /\ bulk_log = <<>>
    /\ fetched = {}
    /\ lost = {}
    /\ status_requests = 0
    /\ bulk_commands = 0
    /\ invalid_writes = 0
    /\ bulk_requests = 0
    /\ bulk_queries = 0
    /\ bulk_chunks = <<>>
    /\ run_pc = "serving"
    /\ adapter_path = TRUE
    /\ advertisement = TRUE
    /\ app_registration = "pending"
    /\ ad_registration = "pending"
    /\ unregister_log = <<>>
    /\ SideInit
    /\ NoQuery
    /\ NoCodec

NextLarge ==
    \/ \E data \in RangeRequests \cup BulkEndpointWrites
                      \cup ShortBulkWrites :
          BulkWriteValue(data)
    \/ BulkNextChunk
    \/ BulkStartNotify
    \/ BulkStopNotify
    \/ LiveFeedStartNotify
    \/ LiveFeedStopNotify

SpecLarge == InitLarge /\ [][NextLarge]_vars

\* The control endpoint: valid and invalid writes, while the poll thread
\* serves a subscriber.
NextControl ==
    \/ Run
    \/ PollLoop
    \/ LiveFeedStartNotify
    \/ \E data \in FeedWrites \cup FilterWrites \cup IntervalWrites
                      \cup InvalidWrites : ControlWriteValue(data)
    \/ Scanner

SpecControl == Init /\ [][NextControl]_vars

\* The RSSI floor: SetRssiFilter writes while the poll thread serves a
\* subscriber and the scanner stores rows with and without an rssi into
\* tables that were empty at the start (the Wi-Fi table starts with the
\* row without rssi).
NextFilter ==
    \/ Run
    \/ PollLoop
    \/ LiveFeedStartNotify
    \/ \E data \in RssiFilterWrites : ControlWriteValue(data)
    \/ \E t \in TsValues :
          ScannerInsertBt(FilterRows[(Len(db_bt) % 3) + 1], t)
    \/ \E t \in TsValues :
          ScannerInsertWifi(FilterRows[((Len(db_wifi) + 2) % 3) + 1], t)

SpecFilter == InitSource /\ [][NextFilter]_vars

\* The live feed of a publisher that is neither paused nor stopped and
\* whose subscribers stay, over tables the scanner fills and then leaves
\* alone.  The poll thread runs whenever it can take a step.
NextServing ==
    \/ Run
    \/ PollLoop
    \/ LiveFeedStartNotify
    \/ Scanner
    \/ Tick

SpecServing == Init /\ [][NextServing]_vars /\ WF_vars(PollLoop)

\* run() against stop(): a stop() during the start-up or while the main
\* loop runs, beside the poll thread and a subscriber.  The main loop
\* returns once it has been asked to quit, and the poll thread runs
\* whenever it can take a step.
NextStop ==
    \/ Run
    \/ RunStoppedEarly
    \/ Stop
    \/ RunExits
    \/ PollLoop
    \/ LiveFeedStartNotify
    \/ Scanner

SpecStop ==
    Init /\ [][NextStop]_vars /\ WF_vars(MainLoopQuits) /\ WF_vars(PollLoop)

\* ================================================================ claims
\* What the live feed has delivered, what the loop still holds of the
\* batches it fetched, and what waits in the deferred queue, as
\* <<type, id>> pairs.
Kind(packet) == IF packet.type = BLUETOOTH THEN "bt" ELSE "wifi"
Delivered == {<<Kind(live_log[i]), live_log[i].id>> : i \in 1..Len(live_log)}
InBatch ==
    {<<"bt", id>> : id \in Range(bt_sightings)}
        \cup {<<"wifi", id>> : id \in Range(wifi_sightings)}
Queued == Range(queue)
InLoopBody == pc \in {"poll_bt", "poll_wifi", "bt_loop", "wifi_loop", "drain"}

\* C1: a deferral never blocks the poll loop.  Whenever the loop stands
\* at a sighting of its batch, the iteration that handles it can be taken,
\* whatever the queue holds: on a full queue the newest sighting is let go
\* and the loop goes on to its drain step.
C1_PushNeverBlocks ==
    /\ (pc = "bt_loop" => ENABLED BtIter)
    /\ (pc = "wifi_loop" => ENABLED WifiIter)

\* C2: no sighting is dropped by the flow controller.  Every sighting a
\* poll has returned (the cursor is past it) has been delivered as a live
\* notification, is still held in the deferred queue, or is still ahead
\* of the loop in the batch being processed.
C2_NoSightingDropped == fetched \subseteq (Delivered \cup Queued \cup InBatch)

\* C3: ordering within a type is preserved.  Ids follow fetch order, so
\* the live log ascends by id within each type, and no sighting has been
\* delivered while an older one of its type still waits in the queue.
C3_OrderWithinType ==
    /\ \A i, j \in 1..Len(live_log) :
          (i < j /\ live_log[i].type = live_log[j].type)
              => live_log[i].id < live_log[j].id
    /\ \A d \in Delivered, q \in Queued : d[1] = q[1] => d[2] < q[2]

\* A step of the poll thread that queries a source, and a step that
\* delivers a live notification.
QueryStep == pc \in {"poll_bt", "poll_wifi"} /\ pc' # pc
EmitStep == live_log' # live_log

C5_NoDeliveryWhileUnsubscribed ==
    [][~live_notifying => live_log' = live_log]_vars

\* An unsubscribe arrived after a delivery, and the loop has since handed a
\* sighting to the endpoint that was not delivered.
C5_UnsubscribedMidStream ==
    /\ ~live_notifying
    /\ live_log # <<>>
    /\ lost # {}

\* C6: a subscribe on the live feed endpoint while it is already
\* subscribed leaves the notifying flag and the subscriber count as they
\* were.
C6_ResubscribeIsNoOp ==
    [][(live_notifying /\ LiveFeedStartNotify)
          => UNCHANGED <<live_notifying, subscribers>>]_vars

\* C7: the interval a pass of the poll loop decides by is the interval
\* the last SetAggregationInterval write configured: at the start of every
\* pass the two are equal.
C7_IntervalFollowsWrite ==
    [][(pc = "check" /\ pc' = "poll_bt")
          => aggregation_interval = aggregation_ms]_vars

\* C10: PauseFeed leaves paused true and ResumeFeed leaves it false,
\* whatever it was, and neither changes the subscriber count, the RSSI
\* floor, the aggregation interval, the sequence counter or the queue.
C10_PauseResumeFrame ==
    [][/\ ControlWriteValue(<<PAUSE_FEED>>) => paused'
       /\ ControlWriteValue(<<RESUME_FEED>>) => ~paused'
       /\ (ControlWriteValue(<<PAUSE_FEED>>)
              \/ ControlWriteValue(<<RESUME_FEED>>))
            => UNCHANGED <<subscribers, min_rssi, aggregation_ms, seq_num,
                           queue>>]_vars

\* The feed is paused while every framed variable has left its initial
\* value.
C10_PausedWithStateSet ==
    /\ paused
    /\ subscribers > 0
    /\ min_rssi # BLE_PUBLISH_MIN_RSSI
    /\ aggregation_ms # BLE_PUBLISH_AGGREGATION_MS
    /\ seq_num > 0
    /\ queue # <<>>

\* C9 as stated: every Ping or GetStats command, whatever the state, is
\* answered by one emission on the status endpoint: the emissions number
\* the commands handled.
C9_EveryRequestEmits == Len(status_log) = status_requests

\* C9, amended: a Ping or GetStats command handled while the status
\* endpoint is subscribed appends exactly one status to what the endpoint
\* has emitted, carrying the paused flag and the queue depth of the state
\* the command is handled in; handled while it is not subscribed, the
\* command emits nothing.
C9_EmitsCurrentStatusWhileSubscribed ==
    [][status_requests' # status_requests =>
          IF status_notifying
          THEN /\ Len(status_log') = Len(status_log) + 1
               /\ SubSeq(status_log', 1, Len(status_log)) = status_log
               /\ Last(status_log').paused = paused
               /\ Last(status_log').queue = Len(queue)
          ELSE status_log' = status_log]_vars

\* The status endpoint has emitted the status of a paused feed whose
\* queue holds a deferred sighting.
C9_StatusOfPausedBusyFeed ==
    /\ status_log # <<>>
    /\ Last(status_log).paused
    /\ Last(status_log).queue > 0

\* C8: a RequestBulkTransfer command whose payload is a bulk request,
\* written to the control endpoint while the bulk endpoint is subscribed,
\* is handed to the bulk transfer: the handler that takes the command
\* emits the chunks of the request, or the empty-result marker, on the
\* bulk endpoint.  (Handlers run to completion on the main loop and
\* nothing else serves a request, so what the step does not emit is never
\* emitted.)
C8_ControlRequestIsServed ==
    [][(bulk_commands' # bulk_commands /\ bulk_notifying)
          => Len(bulk_log') > Len(bulk_log)]_vars

\* C11: an invalid control write (the empty write, an undefined opcode,
\* SetRssiFilter without payload, SetAggregationInterval with fewer than
\* 2 payload bytes) is handled to the end and changes nothing: paused, the
\* RSSI floor, the aggregation interval, the subscriber count, the
\* sequence counter and the queue stay as they were, and no endpoint
\* emits.
C11_InvalidWriteIgnored ==
    [][invalid_writes' # invalid_writes
          => UNCHANGED <<paused, min_rssi, aggregation_ms, subscribers,
                         seq_num, queue, live_log, status_log,
                         bulk_log>>]_vars

\* An invalid write has been handled by a publisher whose settings have
\* all been changed and whose feed is under way.
C11_InvalidWriteOnBusyPublisher ==
    /\ invalid_writes > 0
    /\ paused
    /\ min_rssi # BLE_PUBLISH_MIN_RSSI
    /\ aggregation_ms # BLE_PUBLISH_AGGREGATION_MS
    /\ seq_num > 0
    /\ queue # <<>>

\* ---------------------------------------------------------- bulk replies
\* The chunks a step appended to the bulk endpoint's signal log, the
\* fields of a chunk's header, and the payloads of chunks put one after
\* another.
NewChunks == SubSeq(bulk_log', Len(bulk_log) + 1, Len(bulk_log'))
ChunkId(chunk) == UnpackUInt16(SubSeq(chunk.header, 1, 2))
TotalChunks(chunk) == UnpackUInt16(SubSeq(chunk.header, 3, 4))
RECURSIVE Payloads(_)
Payloads(chunks) ==
    IF chunks = <<>> THEN <<>>
    ELSE Head(chunks).data \o Payloads(Tail(chunks))
\* The row a packet was encoded from.
RowOf(packet) ==
    IF packet.type = BLUETOOTH THEN db_bt[packet.id] ELSE db_wifi[packet.id]

\* C12: a bulk response to a request that matches at least one record
\* consists of chunks numbered 0 .. total_chunks - 1 whose payloads, put
\* together in that order, are byte for byte the encoded matching records
\* one after another, Bluetooth records before Wi-Fi records and each
\* group by ascending timestamp.  The handler sends the first chunk of
\* the response and keeps the others in bulk_chunks; each later step of
\* the transfer sends the first of bulk_chunks and nothing else.
C12_ChunksReassemble ==
    [][/\ \A data \in RangeRequests \cup BulkEndpointWrites :
            LET request == decode_bulk_request(data)
                packets == get_bulk_sightings(request.ts_start,
                                              request.ts_end,
                                              request.sighting_type)
                response == NewChunks \o bulk_chunks'
            IN BulkWriteValue(data) /\ bulk_notifying /\ request.ok
               /\ packets # <<>>
               => /\ Len(NewChunks) = 1
                  /\ \A i \in 1..Len(response) :
                        /\ ChunkId(response[i]) = i - 1
                        /\ TotalChunks(response[i]) = Len(response)
                  /\ Payloads(response) = Join(packets)
                  /\ \A i, j \in 1..Len(packets) :
                        i < j =>
                           /\ ~(packets[i].type = WIFI
                                /\ packets[j].type = BLUETOOTH)
                           /\ packets[i].type = packets[j].type
                                 => RowOf(packets[i]).ts_unix
                                       <= RowOf(packets[j]).ts_unix
       /\ bulk_chunks # <<>>
             => /\ bulk_notifying' = bulk_notifying
                /\ bulk_log' # bulk_log \/ bulk_chunks' # bulk_chunks
                      => /\ bulk_chunks' = Tail(bulk_chunks)
                         /\ bulk_notifying
                               => NewChunks = <<Head(bulk_chunks)>>]_vars

\* A response of several chunks that carries records of both kinds, read
\* from tables whose row order is not their time order.
C12_SeveralChunksBothKinds ==
    /\ \E i \in 1..Len(bulk_log) : TotalChunks(bulk_log[i]) >= 2
    /\ \E i, j \in 1..Len(bulk_log) :
          /\ bulk_log[i].data # <<>> /\ bulk_log[j].data # <<>>
          /\ bulk_log[i].data[1][1] = BLUETOOTH
          /\ Last(bulk_log[j].data)[1] = WIFI
    /\ Len(db_bt) >= 2 /\ db_bt[1].ts_unix > db_bt[2].ts_unix
    /\ bulk_chunks = <<>>

\* The matching rows a bulk query has not encoded.
MatchesLeft ==
    (IF q_type \in {0, 1} THEN q_bt_rows ELSE 0)
        + (IF q_type \in {0, 2} THEN q_wifi_rows ELSE 0)

\* C14: whatever the number of matching records, a bulk query returns
\* every record of the selected kinds in the range, and the k-th record
\* it encodes (counted from 0) carries the sequence number k.
C14_EveryMatchNumbered ==
    /\ q_seq = q_packets
    /\ q_pc = "returned" => MatchesLeft = 0

\* The records a bulk request matches: the rows of the selected tables
\* (0 both, 1 Bluetooth, 2 Wi-Fi) with ts_start <= ts_unix <= ts_end.
Matching(request) ==
    {<<BLUETOOTH, i>> : i \in {r \in 1..Len(db_bt) :
          /\ request.sighting_type \in {0, 1}
          /\ request.ts_start <= db_bt[r].ts_unix
          /\ db_bt[r].ts_unix <= request.ts_end}}
    \cup {<<WIFI, i>> : i \in {r \in 1..Len(db_wifi) :
          /\ request.sighting_type \in {0, 2}
          /\ request.ts_start <= db_wifi[r].ts_unix
          /\ db_wifi[r].ts_unix <= request.ts_end}}
\* The empty-result marker.
EmptyMarker == encode_bulk_chunk(0, 0, <<>>)

C15_SequenceFromZero ==
    /\ live_log # <<>> => live_log[1].seq = 0
    /\ \A i \in 2..Len(live_log) :
          live_log[i].seq = (live_log[i - 1].seq + 1) % SEQ_MODULUS

\* C16: the live sequence counter moves exactly when a live notification
\* is delivered, and then by one modulo 65536: control writes,
\* subscribe and unsubscribe events, polls and emission attempts that
\* deliver nothing leave it as it is.
C16_CounterCountsDeliveries ==
    [][/\ seq_num' # seq_num => Len(live_log') = Len(live_log) + 1
       /\ Len(live_log') = Len(live_log) + 1
             => seq_num' = (seq_num + 1) % SEQ_MODULUS]_vars

\* ------------------------------------------------------- rate limiting
\* The sighting the for loops stand at, and the packet an emission of it
\* carries.
AtSighting ==
    IF pc = "bt_loop" THEN <<"bt", Head(bt_sightings)>>
    ELSE <<"wifi", Head(wifi_sightings)>>
PacketOf(sighting, seq) ==
    IF sighting[1] = "bt" THEN encode_bt_sighting(sighting[2], seq)
    ELSE encode_wifi_sighting(sighting[2], seq)
\* A step that handles the sighting the loops stand at.
IterationStep ==
    /\ pc \in {"bt_loop", "wifi_loop"}
    /\ bt_sightings' # bt_sightings \/ wifi_sightings' # wifi_sightings

C18_MinimumSpacing ==
    [][last_notification' # last_notification /\ last_notification # 0
          => last_notification' - last_notification >= aggregation_ms]_vars

\* ------------------------------------------------- transfers in flight
\* C19: the main loop is never held by a handler.  While a bulk transfer
\* has chunks still to send, the loop can take an unsubscribe event of the
\* live-feed endpoint, an unsubscribe event of the bulk endpoint and a
\* control write, so that they are handled before the last chunk goes out.
C19_LoopServesEventsDuringTransfer ==
    bulk_chunks # <<>>
        => /\ ENABLED LiveFeedStopNotify
           /\ ENABLED BulkStopNotify
           /\ ENABLED ControlWriteValue(<<PAUSE_FEED>>)

\* C20: subscribe and unsubscribe events of the live-feed endpoint leave
\* the bulk endpoint's notifying flag, what the bulk endpoint has emitted
\* and the chunks a transfer has still to send as they are; and a
\* transfer in flight goes on as it was started: the chunks it has still
\* to send are numbered up to total_chunks - 1 with one total_chunks, the
\* notifying flag of the bulk endpoint does not change under it, and its
\* next step emits the first of them unchanged and keeps the others.
C20_LiveFeedEventsSpareTransfer ==
    [][/\ subscribers' # subscribers \/ live_notifying' # live_notifying
            => UNCHANGED <<bulk_notifying, bulk_log, bulk_chunks>>
       /\ bulk_chunks # <<>>
            => LET N == TotalChunks(Head(bulk_chunks))
               IN /\ \A i \in 1..Len(bulk_chunks) :
                        /\ TotalChunks(bulk_chunks[i]) = N
                        /\ ChunkId(bulk_chunks[i])
                              = N - Len(bulk_chunks) + i - 1
                  /\ bulk_notifying' = bulk_notifying
                  /\ bulk_chunks' # bulk_chunks
                        => /\ bulk_chunks' = Tail(bulk_chunks)
                           /\ bulk_log' =
                                 IF bulk_notifying
                                 THEN Append(bulk_log, Head(bulk_chunks))
                                 ELSE bulk_log]_vars

\* A transfer is in flight on a publisher whose live-feed endpoint has
\* seen two subscribe events and one unsubscribe event.
C20_TransferAfterLiveFeedEvents ==
    /\ bulk_chunks # <<>>
    /\ bulk_notifying
    /\ subscribers = 1
    /\ ~live_notifying

\* ---------------------------------------------------------- status reads
\* C21: a read of the status endpoint returns the status of the moment of
\* the read: whenever a read changes the reply, the reply's queue depth
\* is the number of entries in the deferred queue, its paused field the
\* paused flag and its active field the running flag, all as they are
\* when the read is handled; and nothing but a read changes the reply.
C21_ReadReturnsCurrentStatus ==
    [][status_reply' # status_reply
          => /\ status_reply' # None
             /\ status_reply'[1].queue = Len(queue)
             /\ status_reply'[1].paused = paused
             /\ status_reply'[1].active = running
             /\ UNCHANGED <<queue, paused, running>>]_vars

\* A read has returned the status of a paused publisher with a sighting
\* in its queue.
C21_ReadOfPausedBusyFeed ==
    /\ status_reply # None
    /\ status_reply[1].paused
    /\ status_reply[1].queue > 0
    /\ status_reply[1].active

\* ----------------------------------------------------------- advertising
\* C22: the advertising summary is recomputed on every Ping and every
\* GetStats: when either command has been handled, the advertised
\* manufacturer data is the encoding of the counts of the two tables as
\* they are then.
C22_AdvertisingFollowsStatusRequests ==
    [][status_requests' # status_requests
          => manufacturer_data' =
                encode_advertising_manufacturer_data(
                    NO_FIX, Len(db_bt'), Len(db_wifi'))]_vars

\* The number three little-endian bytes stand for.
UInt24(b) == b[1] + 256 * b[2] + 65536 * b[3]

\* C26: the advertising summary is exactly 8 bytes: the protocol version,
\* the fix status, and for each of the two counts the three
\* little-endian bytes of the count if it is at most 0xFFFFFF and of
\* 0xFFFFFF if it is above; each count field depends on its own count
\* only, and decoding returns the same fields.
C26_CountersSaturate ==
    [][\A gps_fix \in FixValues, bt_count \in CountValues,
          wifi_count \in CountValues :
         EncodeAdvertising(gps_fix, bt_count, wifi_count)
            => LET data == manufacturer_data'
                   want_bt == IF bt_count > 16777215 THEN 16777215
                              ELSE bt_count
                   want_wifi == IF wifi_count > 16777215 THEN 16777215
                                ELSE wifi_count
               IN /\ Len(data) = 8
                  /\ \A i \in 1..8 : data[i] \in 0..255
                  /\ data[1] = PROTOCOL_VERSION
                  /\ data[2] = gps_fix
                  /\ UInt24(SubSeq(data, 3, 5)) = want_bt
                  /\ UInt24(SubSeq(data, 6, 8)) = want_wifi
                  /\ decode_advertising_manufacturer_data(data) =
                        [ok |-> TRUE, version |-> PROTOCOL_VERSION,
                         gps_fix |-> gps_fix, bt_count |-> want_bt,
                         wifi_count |-> want_wifi]]_vars

\* A summary whose Bluetooth count is saturated beside a Wi-Fi count of
\* one.
C26_OneCounterSaturated ==
    manufacturer_data = <<PROTOCOL_VERSION, FIX_3D, 255, 255, 255, 1, 0, 0>>

\* ----------------------------------------------------------- wire codec
\* The sighting handed to the encoder, its sequence number and type.
Encoded == codec_out # <<>>
InSighting == codec_in[1].sighting
InSeq == codec_in[1].seq_num
IsBt == codec_in[1].type = BLUETOOTH
\* The fields of the packet the encoder returned.
LatField == UnpackInt32(Slice(codec_out, 13, 17))
LonField == UnpackInt32(Slice(codec_out, 17, 21))
NameOffset == IF IsBt THEN 26 ELSE 23
NameLen == IF IsBt THEN codec_out[25] ELSE codec_out[23]
TrailerLen == IF IsBt THEN codec_out[26] ELSE 0
NameField == Slice(codec_out, NameOffset, NameOffset + NameLen)
InName == IF IsBt THEN OrEmpty(InSighting.local_name) ELSE InSighting.ssid
Decoded ==
    IF IsBt THEN decode_bt_sighting(codec_out)
    ELSE decode_wifi_sighting(codec_out)
\* A decoded string is the string that was encoded, or its beginning.
StartOf(short, long) ==
    /\ Len(short) <= Len(long)
    /\ short = SubSeq(long, 1, Len(short))

\* C23: decoding the packet encoded from a valid sighting succeeds and
\* returns the sequence number and the fields that were encoded, a string
\* possibly cut short and an empty name read back as an absent one.
C23_RoundTrip ==
    Encoded =>
        /\ Decoded.ok
        /\ Decoded.seq_num = InSeq
        /\ Decoded.sighting.ts_unix = InSighting.ts_unix
        /\ Decoded.sighting.lat = InSighting.lat
        /\ Decoded.sighting.lon = InSighting.lon
        /\ Decoded.sighting.rssi = InSighting.rssi
        /\ IF IsBt
           THEN /\ Decoded.sighting.addr = InSighting.addr
                /\ Decoded.sighting.tx_power = InSighting.tx_power
                /\ StartOf(OrEmpty(Decoded.sighting.local_name), InName)
                /\ StartOf(OrEmpty(Decoded.sighting.manufacturer),
                           OrEmpty(InSighting.manufacturer))
           ELSE /\ Decoded.sighting.mac = InSighting.mac
                /\ StartOf(Decoded.sighting.ssid, InName)

\* C24: in every encoded packet the latitude field holds the sentinel
\* exactly when the longitude field holds it, whichever of the two
\* coordinates the sighting has.
C24_SentinelsPaired ==
    Encoded => (LatField = NO_GPS <=> LonField = NO_GPS)

\* C25: the name or SSID of every encoded packet takes at most 32 bytes,
\* is whole UTF-8 (it ends where a character ends), and its length byte
\* counts the name bytes written.
C25_NameWithinByteCap ==
    Encoded =>
        /\ NameLen <= 32
        /\ utf8_decode(NameField) # None
        /\ Len(codec_out) = NameOffset + NameLen + TrailerLen

\* ------------------------------------------------------- corrupt records
\* The sightings of the fetched batch behind the one the loops stand at.
RestOfBatch == InBatch \ {AtSighting}
\* A step in which handling a sighting raises: the sequence number is
\* taken and nothing is emitted.
HandlingFails ==
    /\ live_notifying
    /\ seq_num' # seq_num
    /\ live_log' = live_log

\* C27: a sighting of a fetched batch whose handling fails does not take
\* the rest of its batch with it.  After the failing step the loop still
\* holds every sighting behind it, to emit or to queue it.
C27_FailureSparesTheBatch ==
    [][(pc \in {"bt_loop", "wifi_loop"} /\ HandlingFails)
          => RestOfBatch \subseteq InBatch']_vars

\* -------------------------------------------------------- source failures
\* C28: a failure of the sighting source is not fatal.  The failing query
\* hands the pass no sighting and emits nothing, and leaves the cursors,
\* the queue, the paused flag and the subscriber count as they were; and
\* the pass in which a query failed always comes to its end, the sleep
\* from which the loop returns to query the source again.
C28_FailedQueryIsRetried ==
    /\ [][SourceFails
            => /\ UNCHANGED <<last_bt_id, last_wifi_id, queue, paused,
                              subscribers, live_log, running>>
               /\ InBatch' \subseteq InBatch]_vars
    /\ (source_failed ~> pc = "sleep")

\* ------------------------------------------------- transport registration
\* A registration the publisher knows to have failed, and the objects
\* _cleanup has tried to unregister.
RegistrationFailed ==
    app_registration = "failed" \/ ad_registration = "failed"
Attempted == {unregister_log[i].object : i \in DOMAIN unregister_log}

\* C29: a failed registration of the GATT application or of the
\* advertisement is surfaced in status.  No registration is attempted a
\* second time, so every status computed after the failure reports
\* publish_active = false.
C29_FailedRegistrationSurfaces ==
    [][(status_reply' # status_reply /\ RegistrationFailed)
          => ~status_reply'[1].active]_vars

\* C30 as stated: whenever run() has exited, cleanup has attempted to
\* unregister both the advertisement and the GATT application.
C30_BothUnregistered ==
    run_pc = "exited" => Attempted = {"advertisement", "application"}

\* C30, amended: whenever run() has exited, _running is false and cleanup
\* has attempted to unregister each of the advertisement and the GATT
\* application that run() had created on an adapter it had found, the
\* application also when the unregistration of the advertisement failed.
C30_CreatedAreUnregistered ==
    run_pc = "exited" =>
        /\ ~running
        /\ (advertisement /\ adapter_path) => "advertisement" \in Attempted
        /\ (service /\ adapter_path) => "application" \in Attempted
        /\ Attempted \subseteq
               {o \in {"advertisement", "application"} :
                   IF o = "advertisement" THEN advertisement ELSE service}

\* run() has exited after stop(); the unregistration of the advertisement
\* failed and that of the application was made all the same.
C30_SecondAfterFailedFirst ==
    /\ run_pc = "exited"
    /\ unregister_log =
           <<[object |-> "advertisement", ok |-> FALSE],
             [object |-> "application", ok |-> TRUE]>>

\* ---------------------------------------------------------- bulk chunks
\* C31: a bulk response over an encoded stream of L > 0 bytes has
\* N = ceil(L / 480) chunks, numbered 0 .. N - 1, each carrying
\* total_chunks = N; every chunk but the last has a payload of exactly
\* 480 bytes and the last has 1 .. 480 bytes.  The chunks are emitted in
\* that order: each chunk emitted after the first carries the chunk_id of
\* the one emitted before it plus 1, and the same total_chunks.
C31_ChunksNumberedAndSized ==
    [][/\ \A data \in RangeRequests \cup BulkEndpointWrites :
            LET request == decode_bulk_request(data)
                packets == get_bulk_sightings(request.ts_start,
                                              request.ts_end,
                                              request.sighting_type)
                L == Len(Join(packets))
                N == (L + 479) \div 480
                response == NewChunks \o bulk_chunks'
            IN BulkWriteValue(data) /\ bulk_notifying /\ request.ok
               /\ L > 0
               => /\ Len(response) = N
                  /\ NewChunks = <<response[1]>>
                  /\ \A i \in 1..N :
                        /\ ChunkId(response[i]) = i - 1
                        /\ TotalChunks(response[i]) = N
                        /\ i < N => Len(response[i].data) = 480
                        /\ i = N => /\ Len(response[i].data) >= 1
                                    /\ Len(response[i].data) <= 480
                                    /\ Len(response[i].data)
                                          = L - 480 * (N - 1)
       /\ bulk_chunks # <<>> /\ NewChunks # <<>>
             => /\ Len(NewChunks) = 1
                /\ bulk_log # <<>>
                /\ ChunkId(NewChunks[1]) = ChunkId(Last(bulk_log)) + 1
                /\ TotalChunks(NewChunks[1]) = TotalChunks(Last(bulk_log))
                /\ bulk_chunks' = <<>>
                      <=> ChunkId(NewChunks[1]) + 1
                             = TotalChunks(NewChunks[1])]_vars

\* A transfer over a stream of exactly two chunk sizes has ended: two
\* chunks of 480 bytes and none after them.
C31_TwoFullChunksSent ==
    /\ bulk_chunks = <<>>
    /\ Len(bulk_log) = 2
    /\ ChunkId(bulk_log[1]) = 0 /\ ChunkId(bulk_log[2]) = 1
    /\ TotalChunks(bulk_log[2]) = 2
    /\ Len(bulk_log[1].data) = 480
    /\ Len(bulk_log[2].data) = 480

\* ------------------------------------------------------ deferred queue
\* A step of the drain loop that finds an entry in the queue.
DrainStep == pc = "drain" /\ queue # <<>> /\ (pc' # pc \/ queue' # queue)

\* C32: draining is first in, first out and gated by the interval.  A
\* step that adds to the queue appends behind the entries already there;
\* a step that takes from it takes the oldest entry, emits that entry,
\* and is taken only when the publisher's aggregation interval has
\* elapsed since the emission recorded last; a drain check at which it
\* has not elapsed ends the draining and leaves the queue as it is.
C32_DrainFifoAndGated ==
    [][/\ Len(queue') > Len(queue)
             => SubSeq(queue', 1, Len(queue)) = queue
       /\ Len(queue') < Len(queue)
             => /\ queue' = Tail(queue)
                /\ now' - last_notification >= aggregation_ms
                /\ live_notifying
                      => live_log' = Append(live_log,
                                            PacketOf(Head(queue), seq_num'))
       /\ Len(queue') = Len(queue) => queue' = queue
       /\ DrainStep /\ ~(now' - last_notification >= aggregation_ms)
             => queue' = queue /\ pc' = "sleep"]_vars

\* ----------------------------------------------------------- RSSI floor
\* The rows a poll step returned, and the rssi column of each.
Returned ==
    {<<"bt", id>> : id \in
        IF bt_sightings' # bt_sightings THEN Range(bt_sightings') ELSE {}}
    \cup {<<"wifi", id>> : id \in
        IF wifi_sightings' # wifi_sightings THEN Range(wifi_sightings')
        ELSE {}}
RssiOf(item) == RowOfItem(item).rssi

\* C33: a SetRssiFilter write with at least one payload byte sets the
\* RSSI floor to that byte read as a signed 8-bit integer (0x80 .. 0xFF
\* are -128 .. -1), and a write without payload leaves the floor alone;
\* every query of the poll loop returns only rows whose rssi is absent or
\* at or above the floor set by the last write before the query.
C33_FloorIsSignedByteAndApplied ==
    [][/\ \A data \in RssiFilterWrites :
            ControlWriteValue(data)
               => min_rssi' =
                     IF Len(data) < 2 THEN min_rssi
                     ELSE IF data[2] >= 128 THEN data[2] - 256
                     ELSE data[2]
       /\ min_rssi' # min_rssi
             => \E data \in RssiFilterWrites : ControlWriteValue(data)
       /\ pc \in {"poll_bt", "poll_wifi"}
             => \A item \in Returned :
                   IF RssiOf(item) = None THEN TRUE
                   ELSE RssiOf(item)[1] >= min_rssi]_vars

\* After the floor was set to -60 dBm by the byte 0xC4, polls returned a
\* row at -50 dBm and a row without rssi, and went past a row at -90 dBm
\* without returning it.
C33_WeakRowSkipped ==
    /\ min_rssi = -60
    /\ \E item \in fetched : RssiOf(item) = Some(-50)
    /\ \E item \in fetched : RssiOf(item) = None
    /\ \E id \in 1..Len(db_bt) :
          /\ db_bt[id].rssi = Some(-90)
          /\ id < last_bt_id
          /\ <<"bt", id>> \notin fetched

\* ------------------------------------------------- malformed bulk writes
\* C34: a write to the bulk endpoint of fewer than 9 bytes is rejected.
\* The handler emits no chunk, calls get_bulk_sightings not at all, leaves
\* every field of the publisher, of its endpoints and of the poller as it
\* was, and returns: the main loop is not inside a transfer afterwards.
\* The only trace of the write is the count of writes handled.
C34_ShortBulkWriteRejected ==
    [][\A data \in ShortBulkWrites \cup BulkEndpointWrites :
          Len(data) < 9 /\ BulkWriteValue(data)
             => /\ bulk_log' = bulk_log
                /\ bulk_queries' = bulk_queries
                /\ bulk_chunks' = <<>>
                /\ bulk_requests' = bulk_requests + 1
                /\ UNCHANGED <<publisherVars, charVars, pollerVars, dbVars,
                               loopVars, clock, live_log, status_log,
                               fetched, lost, status_requests,
                               bulk_commands, invalid_writes, queryVars,
                               codecVars, transportVars, sideVars>>]_vars

\* A short write was handled by a publisher whose bulk endpoint is
\* subscribed and whose tables hold rows for several chunks.
C34_ShortWriteBesideFullTables ==
    /\ bulk_requests = 1
    /\ bulk_queries = 0
    /\ bulk_notifying
    /\ bulk_log = <<>>
    /\ Len(db_bt) >= 19
    /\ \E i \in 1..Len(db_bt) : db_bt[i].ts_unix = 60

\* ------------------------------------------------------ subscriber count
\* C35: in every reachable state the subscriber count is greater than 0
\* if and only if the live-feed endpoint's notifying flag is set, whatever
\* the sequence of subscribe and unsubscribe events.
C35_CountMatchesFlag == subscribers > 0 <=> live_notifying

\* C36: the subscriber count is never negative, and an unsubscribe event
\* that finds the count at 0 leaves it at 0: in every reachable state the
\* count is at least 0 and on_live_feed_unsubscribe gives a count of at
\* least 0, which is 0 where the count is 0.
C36_CountNeverNegative ==
    /\ subscribers >= 0
    /\ on_live_feed_unsubscribe(subscribers) >= 0
    /\ subscribers = 0 => on_live_feed_unsubscribe(subscribers) = 0

\* The count is back at 0 after a subscriber that was served has left,
\* and the main loop can dispatch a further unsubscribe event.
C36_UnsubscribeAtZero ==
    /\ subscribers = 0
    /\ ~live_notifying
    /\ live_log # <<>>
    /\ ENABLED LiveFeedStopNotify

\* ------------------------------------------------------- queue liveness
\* The model follows the clock up to MaxClock.
Horizon == clock + TickMs > MaxClock

\* C37: while a subscriber stays, the feed is not paused and the
\* publisher runs, and only finitely many sightings arrive, a deferred
\* queue that holds an entry becomes empty again, as long as the clock is
\* short of the time the model follows.
C37_QueueDrains ==
    (queue # <<>> /\ running /\ ~paused /\ subscribers > 0)
        ~> (queue = <<>> \/ Horizon)

\* -------------------------------------------------------------- cursors
\* The cursor a returned row is compared with.
CursorOf(item) == IF item[1] = "bt" THEN last_bt_id ELSE last_wifi_id

\* C38: each poller cursor never decreases; every row a query returns has
\* an id above the cursor the query started from, and was returned by no
\* query before; and the poll loop moves a cursor only while the feed is
\* not paused and a subscriber is present, so that rows stored while it
\* is paused or nobody is subscribed stay ahead of the cursor.
C38_CursorsMonotoneAndGated ==
    [][/\ last_bt_id' >= last_bt_id
       /\ last_wifi_id' >= last_wifi_id
       /\ pc \in {"poll_bt", "poll_wifi"}
             => \A item \in Returned :
                   /\ item[2] > CursorOf(item)
                   /\ item \notin fetched
       /\ pc # "idle" /\ <<last_bt_id, last_wifi_id>>' #
                            <<last_bt_id, last_wifi_id>>
             => ~paused /\ subscribers > 0]_vars

\* --------------------------------------------------- queue frame effect
\* The loop is at its drain step in a pass whose for loops found the
\* interval elapsed and yet recorded no emission: the pass fetched
\* nothing, and what the queue holds was deferred in earlier passes,
\* before the check at the top of this one found the feed unpaused and
\* subscribed.
HeldOver ==
    /\ pc = "drain"
    /\ queue # <<>>
    /\ aggregation_interval > 0
    /\ IntervalElapsed(now, last_notification, aggregation_interval)

\* C39: the deferred queue is changed by the poll loop's push and pop
\* only, never by a control write or a subscribe or unsubscribe event;
\* and entries deferred before a pause or an unsubscribe stay in the
\* queue while the feed is paused or nobody is subscribed, for the resume
\* or the subscribe after which they are emitted.
C39_QueueKeptForResume ==
    [][/\ queue' # queue => BtIter \/ WifiIter \/ Drain
       /\ HeldOver /\ (paused \/ subscribers = 0) => queue' = queue]_vars

\* ------------------------------------------------------------------ stop
\* C40: stop() always takes effect.  Once a stop() has cleared the
\* running flag of a publisher whose run() is under way, during the
\* start-up or while the main loop runs, run() returns; and when run()
\* has returned the running flag is false.
C40_StopTakesEffect ==
    /\ (~running /\ run_pc \in {"serving", "stopping"})
          ~> run_pc = "exited"
    /\ [](run_pc = "exited" => ~running)
====
